---- MODULE Spec2Model ----
(***************************************************************************)
(* RayforceBridge (src-tauri/src/bridge.rs): one worker thread owns the    *)
(* embedded engine; callers reach it through an unbounded FIFO command     *)
(* channel and one-shot response channels.  The model has three layers:    *)
(*   1. engine values and the accessors declared in rayforce_ffi.rs,       *)
(*   2. the pure functions of bridge.rs (metadata, rows, materializer),    *)
(*   3. the state machine: bridge fields, channel, worker loop, callers.   *)
(***************************************************************************)
EXTENDS Integers, Sequences, FiniteSets, TLC

\* ---------------------------------------------------------------- bounds
\* Commands that may be sent on the command channel in one behaviour.
MaxCmds == 3
\* Largest start / count a GetRows of the row specification carries.
MaxIdx == 3

\* ------------------------------------------------- engine type constants
TYPE_LIST == 0
TYPE_I64 == 5
TYPE_SYMBOL == 6
TYPE_F64 == 10
TYPE_C8 == 12
TYPE_TABLE == 98
TYPE_DICT == 99
TYPE_LAMBDA == 100
TYPE_NULL == 126
TYPE_ERR == 127

\* ---------------------------------------------------------- engine values
\* An ObjT: the type tag, the 8 bytes at offset 8 (read by len() and by
\* as_i64()/as_f64() alike), and what the engine's accessors reach from it.
\* A vector's elems are raw element values, a list's elems are objects.
MkObj(t, v, es, ks, vs) ==
    [null |-> FALSE, type_ |-> t, i64 |-> v, elems |-> es, keys |-> ks, vals |-> vs]

NULL_OBJ == [null |-> TRUE, type_ |-> 0, i64 |-> 0, elems |-> <<>>, keys |-> <<>>, vals |-> <<>>]

Atom(t, v) == MkObj(t, v, <<>>, <<>>, <<>>)
Vec(t, es) == MkObj(t, Len(es), es, <<>>, <<>>)

\* table(keys, vals) / dict(keys, vals): keys is a vector, vals a list.
\* The header word of a table holds its row count (ObjT::len is documented
\* as valid for tables).
Table(ks, cols) ==
    MkObj(TYPE_TABLE, IF Len(cols) = 0 THEN 0 ELSE cols[1].i64, <<>>, <<ks>>, <<Vec(TYPE_LIST, cols)>>)
Dict(ks, vs) == MkObj(TYPE_DICT, Len(vs), <<>>, <<ks>>, <<Vec(TYPE_LIST, vs)>>)

\* ray_err(msg): an error object; at_sym(obj, "msg") reaches the message.
ErrObj(msgs) == MkObj(TYPE_ERR, 0, msgs, <<>>, <<>>)

ObjLen(obj) == obj.i64
as_i64(obj) == obj.i64
as_f64(obj) == obj.i64
is_error(obj) == obj.type_ = TYPE_ERR
is_vector(obj) == obj.type_ >= 0 /\ obj.type_ <= TYPE_C8
is_list(obj) == obj.type_ = TYPE_LIST

\* data_ptr::<T>() followed by *ptr.add(idx): the idx-th raw element.
DataAt(obj, idx) == obj.elems[idx + 1]

\* at_idx(obj, idx): element idx of a vector (as an atom of the negated
\* tag) or of a list; the null object outside the value.
at_idx(obj, idx) ==
    IF obj.null \/ idx < 0 \/ idx >= Len(obj.elems) THEN NULL_OBJ
    ELSE IF obj.type_ = TYPE_LIST THEN obj.elems[idx + 1]
    ELSE IF obj.type_ >= 1 /\ obj.type_ <= TYPE_C8 THEN Atom(0 - obj.type_, obj.elems[idx + 1])
    ELSE NULL_OBJ

ray_key(obj) == IF obj.null \/ Len(obj.keys) = 0 THEN NULL_OBJ ELSE obj.keys[1]
ray_value(obj) == IF obj.null \/ Len(obj.vals) = 0 THEN NULL_OBJ ELSE obj.vals[1]

\* at_sym(obj, "msg", 3) on an error object.
at_sym_msg(obj) ==
    IF obj.null \/ obj.type_ # TYPE_ERR \/ Len(obj.elems) = 0 THEN NULL_OBJ ELSE obj.elems[1]

\* ------------------------------------------------------------ JSON values
JNull == [k |-> "null"]
JBool(b) == [k |-> "bool", b |-> b]
JInt(n) == [k |-> "int", n |-> n]
JFloat(x) == [k |-> "float", x |-> x]
JStr(s) == [k |-> "str", s |-> s]
JArr(a) == [k |-> "arr", a |-> a]
JObj(o) == [k |-> "obj", o |-> o]

EmptyMap == [x \in {} |-> JNull]
\* HashMap::insert: a later insert of the same key replaces the earlier one.
MapInsert(m, key, v) == [x \in (DOMAIN m) \cup {key} |-> IF x = key THEN v ELSE m[x]]

\* byte -> char, for the bytes the modelled values hold.
Chr(b) ==
    CASE b = 97 -> "a"
      [] b = 98 -> "b"
      [] b = 99 -> "c"
      [] OTHER -> "?"

RECURSIVE Utf8Lossy(_)
Utf8Lossy(bytes) == IF Len(bytes) = 0 THEN "" ELSE Chr(Head(bytes)) \o Utf8Lossy(Tail(bytes))

symbol_to_string(obj) ==
    IF obj.null THEN ""
    ELSE IF obj.type_ = 0 - TYPE_SYMBOL THEN "col_" \o ToString(as_i64(obj))
    ELSE IF obj.type_ = TYPE_C8 THEN Utf8Lossy(obj.elems)
    ELSE IF obj.type_ = 0 - TYPE_C8 THEN Chr(as_i64(obj))
    ELSE "col_" \o ToString(obj.type_)

extract_error_message(obj) ==
    IF obj.null THEN "Unknown error"
    ELSE LET msg == at_sym_msg(obj)
         IN  IF ~msg.null /\ msg.type_ = TYPE_C8 THEN symbol_to_string(msg)
             ELSE "Query execution error"

\* ----------------------------------------------------------- materializer
RECURSIVE obj_to_json(_)
RECURSIVE dict_to_row_from(_, _, _)
RECURSIVE ElemsToJson(_, _)

\* for i in i..len: arr.push(obj_to_json(at_idx(obj, i)))
ElemsToJson(obj, i) ==
    IF i >= ObjLen(obj) THEN <<>>
    ELSE <<obj_to_json(at_idx(obj, i))>> \o ElemsToJson(obj, i + 1)

\* the loop of dict_to_row from key index i on
dict_to_row_from(keys, values, i) ==
    IF i >= ObjLen(keys) THEN EmptyMap
    ELSE LET rest == dict_to_row_from(keys, values, i + 1)
             key_name == symbol_to_string(at_idx(keys, i))
         IN  \* keys are inserted in index order: the last insert of a name wins
             IF key_name \in DOMAIN rest THEN rest
             ELSE MapInsert(rest, key_name, obj_to_json(at_idx(values, i)))

dict_to_row(obj) ==
    LET keys == ray_key(obj)
        values == ray_value(obj)
    IN  IF keys.null \/ values.null THEN EmptyMap
        ELSE dict_to_row_from(keys, values, 0)

\* faulty variant: a tag without an arm of its own gives null
obj_to_jsonNoCatchAll(obj) ==
    IF obj.null THEN JNull
    ELSE IF obj.type_ \in {-2, -3, -4, -5, -7, -8, -9} THEN JInt(as_i64(obj))
    ELSE IF obj.type_ = -1 THEN JBool(as_i64(obj) # 0)
    ELSE JNull

obj_to_json(obj) ==
    IF obj.null THEN JNull
    ELSE LET t == obj.type_
         IN  CASE t = -1 -> JBool(as_i64(obj) # 0)
               [] t \in {-2, -3, -4, -5} -> JInt(as_i64(obj))
               [] t = -6 -> JStr(symbol_to_string(obj))
               [] t = -7 -> JInt(as_i64(obj))
               [] t \in {-8, -9} -> JInt(as_i64(obj))
               [] t = -10 -> JFloat(as_f64(obj))
               [] t = -12 -> JStr(Chr(as_i64(obj) % 256))
               [] t >= 1 /\ t <= 12 -> JArr(ElemsToJson(obj, 0))
               [] t = 0 -> JArr(ElemsToJson(obj, 0))
               [] t = TYPE_TABLE -> JObj(MapInsert(MapInsert(EmptyMap, "type", JStr("table")), "rows", JInt(ObjLen(obj))))
               [] t = TYPE_DICT -> JObj(dict_to_row(obj))
               [] t = TYPE_ERR -> JObj(MapInsert(EmptyMap, "error", JStr(extract_error_message(obj))))
               [] t = TYPE_NULL -> JNull
               [] OTHER -> JObj(MapInsert(EmptyMap, "type", JInt(t)))

\* ------------------------------------------------------- results (Result<T, String>)
\* Ok(QueryMeta), Ok(Vec<Row>), Err(String); NoResp: nothing received yet
OkMeta(m) == [ok |-> TRUE, meta |-> m]
OkRows(r) == [ok |-> TRUE, rows |-> r]
Err(kind, arg) == [ok |-> FALSE, err |-> kind, arg |-> arg]
NoResp == [ok |-> FALSE, err |-> "", arg |-> 0]
\* Ok(ScalarResult { value, type_name })
OkScalar(v, t) == [ok |-> TRUE, scalar |-> [value |-> v, type_name |-> t]]

\* ---------------------------------------------------------------- metadata
RECURSIVE KeyNamesNonNull(_, _)
\* extract_table_meta / extract_dict_meta: names of the non-null keys
KeyNamesNonNull(keys, i) ==
    IF i >= ObjLen(keys) THEN <<>>
    ELSE LET col_sym == at_idx(keys, i)
         IN  (IF col_sym.null THEN <<>> ELSE <<symbol_to_string(col_sym)>>)
             \o KeyNamesNonNull(keys, i + 1)

\* (columns, row_count)
extract_table_meta(obj) ==
    LET keys == ray_key(obj)
        values == ray_value(obj)
        first_col == at_idx(values, 0)
    IN  IF keys.null THEN [columns |-> <<>>, row_count |-> 0]
        ELSE [columns |-> KeyNamesNonNull(keys, 0),
              row_count |-> IF values.null \/ first_col.null THEN 0
                            ELSE IF is_vector(first_col) \/ is_list(first_col)
                                 THEN ObjLen(first_col) ELSE 0]

extract_dict_meta(obj) ==
    LET keys == ray_key(obj)
    IN  IF keys.null THEN [columns |-> <<>>, row_count |-> 0]
        ELSE [columns |-> KeyNamesNonNull(keys, 0), row_count |-> 1]

\* faulty variant: a list is classed as a vector
ResultTypeListAsVector(type_code) == IF type_code < 0 THEN "scalar" ELSE "vector"

ResultType(type_code) ==
    CASE type_code = TYPE_TABLE -> "table"
      [] type_code = TYPE_ERR -> "error"
      [] type_code = 99 -> "dict"
      [] type_code = 0 -> "list"
      [] type_code < 0 -> "scalar"
      [] type_code >= 1 /\ type_code <= 12 -> "vector"
      [] OTHER -> "unknown"

\* QueryMeta without column_types (type names per column), which no
\* property below reads.
extract_query_meta(handle, obj) ==
    LET type_code == obj.type_
        cr == CASE type_code = TYPE_TABLE -> extract_table_meta(obj)
                [] type_code = 99 -> extract_dict_meta(obj)
                [] type_code < 0 -> [columns |-> <<"value">>, row_count |-> 1]
                [] type_code >= 0 /\ type_code <= 12 ->
                       [columns |-> <<"value">>, row_count |-> ObjLen(obj)]
                [] OTHER -> [columns |-> <<>>, row_count |-> 0]
    IN  [handle |-> handle, columns |-> cr.columns, row_count |-> cr.row_count,
         result_type |-> ResultType(type_code)]

\* -------------------------------------------------------------------- rows
Min(a, b) == IF a < b THEN a ELSE b
\* u64::saturating_sub
SaturatingSub(a, b) == IF a > b THEN a - b ELSE 0

ValueRow(v) == MapInsert(EmptyMap, "value", v)

\* faulty variant: the F64 buffer is read like the I64 buffer
VectorElemJsonAsInt(obj, idx) ==
    IF obj.type_ \in {5, 10} THEN JInt(DataAt(obj, idx)) ELSE obj_to_json(at_idx(obj, idx))

\* the element of a vector or list that row idx is built from: the
\* element buffer for the I64 and F64 tags, at_idx + obj_to_json otherwise
VectorElemJson(obj, idx) ==
    CASE obj.type_ = 5 -> JInt(DataAt(obj, idx))
      [] obj.type_ = 10 -> JFloat(DataAt(obj, idx))
      [] OTHER -> obj_to_json(at_idx(obj, idx))

\* faulty variant: the window is not cut to count
ActualCountToEnd(total, start, count) == SaturatingSub(total, start)

\* min(count, total.saturating_sub(start))
ActualCount(total, start, count) == Min(count, SaturatingSub(total, start))

VectorRows(obj, start, count) ==
    LET actual_count == ActualCount(ObjLen(obj), start, count)
    IN  [i \in 1..actual_count |-> ValueRow(VectorElemJson(obj, start + (i - 1)))]

\* faulty variant: the columns are named by their position
ColNamesByPosition(keys, i) == [k \in 1..ObjLen(keys) |-> "c" \o ToString(k)]

RECURSIVE ColNames(_, _)
\* get_table_rows: col_names, one per key (a null key gives "")
ColNames(keys, i) ==
    IF i >= ObjLen(keys) THEN <<>>
    ELSE <<symbol_to_string(at_idx(keys, i))>> \o ColNames(keys, i + 1)

RECURSIVE TableRow(_, _, _, _)
\* one row: for col_idx in col_idx..num_cols: row.insert(col_names[col_idx], ...)
TableRow(values, col_names, idx, col_idx) ==
    IF col_idx > Len(col_names) THEN EmptyMap
    ELSE LET rest == TableRow(values, col_names, idx, col_idx + 1)
             col_vec == at_idx(values, col_idx - 1)
         IN  IF col_vec.null \/ col_names[col_idx] \in DOMAIN rest THEN rest
             ELSE MapInsert(rest, col_names[col_idx], obj_to_json(at_idx(col_vec, idx)))

get_table_rows(obj, start, count) ==
    LET keys == ray_key(obj)
        values == ray_value(obj)
        first_col == at_idx(values, 0)
    IN  IF keys.null \/ values.null THEN OkRows(<<>>)
        ELSE IF first_col.null THEN OkRows(<<>>)
        ELSE LET col_names == ColNames(keys, 0)
                 actual_count == ActualCount(ObjLen(first_col), start, count)
             IN  OkRows([i \in 1..actual_count |->
                        TableRow(values, col_names, start + (i - 1), 1)])

\* faulty variant: the scalar's row at every start
ScalarRowsAnyStart(obj, start, count) == <<ValueRow(obj_to_json(obj))>>

ScalarRows(obj, start, count) ==
    IF start > 0 THEN <<>> ELSE <<ValueRow(obj_to_json(obj))>>

\* faulty variant: a dict gives no row
DictRowsNone(obj, start, count) == <<>>

DictRows(obj, start, count) ==
    IF start > 0 THEN <<>> ELSE <<dict_to_row(obj)>>

\* faulty variant: no rows, whatever the value
RowsOfValueEmpty(obj, start, count) == OkRows(<<>>)

\* get_rows_impl with the handle already looked up
RowsOfValue(obj, start, count) ==
    LET type_code == obj.type_
    IN  CASE type_code < 0 -> OkRows(ScalarRows(obj, start, count))
          [] type_code >= 0 /\ type_code <= 12 -> OkRows(VectorRows(obj, start, count))
          [] type_code = TYPE_TABLE -> get_table_rows(obj, start, count)
          [] type_code = 99 -> OkRows(DictRows(obj, start, count))
          [] OTHER -> Err("Unsupported type", type_code)


\* ------------------------------------------------------------- the engine
\* eval_str: what the engine returns for each source text the callers use.
EvalStr(code) ==
    CASE code = "7" -> Atom(-5, 7)
      [] code = "(til 3)" -> Vec(TYPE_I64, <<0, 1, 2>>)
      [] code = "(til 10)" -> Vec(TYPE_I64, <<0, 1, 2, 3, 4, 5, 6, 7, 8, 9>>)
      [] code = "[1.5 2.5]" -> Vec(TYPE_F64, <<15, 25>>)
      [] code = "['a 'b]" -> Vec(TYPE_SYMBOL, <<1, 2>>)
      [] code = "(list 7 (til 3))" -> Vec(TYPE_LIST, <<Atom(-5, 7), Vec(TYPE_I64, <<0, 1, 2>>)>>)
      [] code = "(table [a b] (list (til 3) ['a 'b 'a]))" ->
             Table(Vec(TYPE_SYMBOL, <<1, 2>>),
                   <<Vec(TYPE_I64, <<0, 1, 2>>), Vec(TYPE_SYMBOL, <<1, 2, 1>>)>>)
      [] code = "(dict [a b] (list 7 (til 3)))" ->
             Dict(Vec(TYPE_SYMBOL, <<1, 2>>), <<Atom(-5, 7), Vec(TYPE_I64, <<0, 1, 2>>)>>)
      [] code = "(fn [x] x)" -> MkObj(TYPE_LAMBDA, 0, <<>>, <<>>, <<>>)
      [] code = "true" -> Atom(-1, 1)
      [] code = "'a" -> Atom(-6, 1)
      [] code = "[true false]" -> Vec(1, <<1, 0>>)
      [] code = "(dict [1 2] (list 7 8))" ->
             Dict(Vec(TYPE_I64, <<1, 2>>), <<Atom(-5, 7), Atom(-5, 8)>>)
      [] code = "(list (list true 2 2024.01.01 12:00:00 2024.01.01D12:00:00 'a \"b\" null))" ->
             Vec(TYPE_LIST, <<Vec(TYPE_LIST, <<Atom(-1, 1), Atom(-5, 2), Atom(-7, 8766),
                                               Atom(-8, 43200), Atom(-9, 757425600),
                                               Atom(-6, 1), Atom(-12, 98), NULL_OBJ>>)>>)
      [] code = "(list (fn [x] x) null 7)" ->
             Vec(TYPE_LIST, <<MkObj(TYPE_LAMBDA, 0, <<>>, <<>>, <<>>),
                              MkObj(TYPE_NULL, 0, <<>>, <<>>, <<>>), Atom(-5, 7)>>)
      [] code = "(dict [a] (list (fn [x] x)))" ->
             Dict(Vec(TYPE_SYMBOL, <<1>>), <<MkObj(TYPE_LAMBDA, 0, <<>>, <<>>, <<>>)>>)
      [] code = "(raise 'ab')" -> ErrObj(<<Vec(TYPE_C8, <<97, 98>>)>>)
      [] code = "(set a (hopen \"up:5000\"))" -> Atom(-5, 3)
      [] code = "(set a (hopen \"down:5000\"))" -> ErrObj(<<>>)
      [] code = "(hclose a)" -> MkObj(TYPE_NULL, 0, <<>>, <<>>, <<>>)
      [] code = "(undefined)" -> ErrObj(<<>>)
      [] OTHER -> NULL_OBJ

\* CString::new(code) fails on an interior NUL byte
HasNul(code) == code = "a\\0b"

\* source texts of the concurrent specification, and of the row specification
Codes == {"(til 3)", "(raise 'ab')"}
RowCodes == {"7", "(til 3)", "[1.5 2.5]", "['a 'b]", "(list 7 (til 3))",
             "(table [a b] (list (til 3) ['a 'b 'a]))", "(dict [a b] (list 7 (til 3)))",
             "(fn [x] x)", "(raise 'ab')", "(undefined)", "(nothing)", "a\\0b"}
\* source texts of the value specification: one value per materializer arm
ValCodes == {"7", "true", "'a", "(til 3)", "[1.5 2.5]", "[true false]",
             "(dict [a b] (list 7 (til 3)))", "(dict [1 2] (list 7 8))",
             "(table [a b] (list (til 3) ['a 'b 'a]))",
             "(list (list true 2 2024.01.01 12:00:00 2024.01.01D12:00:00 'a \"b\" null))",
             "(list (fn [x] x) null 7)", "(dict [a] (list (fn [x] x)))"}
QueryIds == {"q1"}

\* ------------------------------------------------------------------ state
Callers == {1, 2}
\* thread id of the worker (callers are 1, 2, ...)
WorkerThread == 0

VARIABLES
    running,          \* RayforceBridge.running
    command_rx,       \* RayforceBridge.command_rx: "stored" | "taken" | "dropped"
    thread_handle,    \* RayforceBridge.thread_handle: "none" | "some"
    bridge_cancelled, \* RayforceBridge.cancelled
    bridge,           \* "alive" | "dropping" | "dropped"
    queue,            \* the command channel
    wpc,              \* worker: "none" | "init" | "recv" | "busy" | "drain" | "clean" | "exited"
    cur,              \* the command the worker is processing
    handles,          \* worker local: handle -> index into objs
    next_handle,      \* worker local
    cancelled,        \* worker local
    runtime,          \* engine runtime: "none" | "up" | "failed" | "clean"
    objs,             \* values eval_str returned: [code, drops (drop_obj calls)]
    pc,               \* caller -> position
    req,              \* caller -> its current / last request
    resp,             \* caller -> the last result it received
    spawned,          \* thread::spawn calls
    engine_callers,   \* threads that called into the engine
    late_call,        \* an engine call was made after ray_clean
    nsent,            \* commands put on the channel
    napplied,         \* commands the worker received
    shutdown_sent,    \* a Shutdown send was attempted
    issued,           \* handles issued, in order
    release_seen,     \* handles a processed Release named
    released,         \* handles a processed Release named after they were issued
    cancel_hist,      \* id -> the commands processed from the Cancel that put the id
                      \* on record up to the Execute that used it up
    connections,      \* commands.rs SERVER_CONNECTIONS: alias -> [host, port], with the
                      \* caller whose connect_server made the entry and whether that
                      \* call has returned Ok
    last_done,        \* alias -> how the last call that returned for it ended
    cell,             \* lib.rs BRIDGE: "empty" | "set" (the bridge above is installed)
    temp              \* caller -> the bridge its init_bridge() built and still owns

vars == <<running, command_rx, thread_handle, bridge_cancelled, bridge, queue, wpc, cur,
          handles, next_handle, cancelled, runtime, objs, pc, req, resp, spawned,
          engine_callers, late_call, nsent, napplied, shutdown_sent, issued,
          release_seen, released, cancel_hist, connections, last_done, cell, temp>>

bridgeVars == <<running, command_rx, thread_handle, bridge_cancelled, bridge>>
workerVars == <<wpc, cur, handles, next_handle, cancelled, napplied, issued, release_seen,
                released>>
engineVars == <<runtime, objs, engine_callers, late_call>>
relVars == <<release_seen, released>>
cellVars == <<cell, temp>>
connVars == <<connections, last_done>>

EmptyHandles == [h \in {} |-> 0]
NoCmd == [tag |-> "None", query_id |-> "", code |-> "", handle |-> 0, start |-> 0,
          count |-> 0, from |-> 0, seq |-> 0]
NoReq == [op |-> "none", query_id |-> "", handle |-> 0, start |-> 0, count |-> 0,
          seq |-> 0, result_type |-> "", cancel_seen |-> FALSE, after_shutdown |-> FALSE,
          before_start |-> FALSE, alias |-> "", code |-> ""]

\* aliases, hosts and ports the callers of connect_server use
Aliases == {"a", "1a"}
Hosts == {"up", "down"}
Ports == {5000}

\* Lazy::new(|| Mutex::new(HashMap::new()))
NoConnections == [a \in {} |-> 0]

\* a bridge that is not built, and RayforceBridge::new(): the receiver in its
\* slot, no thread, not running, nothing sent
NoBridge == [built |-> FALSE, running |-> FALSE, command_rx |-> "none",
             thread_handle |-> "none", queue |-> <<>>]
NewBridge == [built |-> TRUE, running |-> FALSE, command_rx |-> "stored",
              thread_handle |-> "none", queue |-> <<>>]

\* the bridge as RayforceBridge::new() returns it, and no worker
FreshBridge ==
    /\ running = FALSE
    /\ command_rx = "stored"
    /\ thread_handle = "none"
    /\ bridge_cancelled = {}
    /\ bridge = "alive"
    /\ queue = <<>>
    /\ wpc = "none"
    /\ cur = NoCmd
    /\ handles = EmptyHandles
    /\ next_handle = 1
    /\ cancelled = {}
    /\ runtime = "none"
    /\ objs = <<>>
    /\ pc = [c \in Callers |-> "idle"]
    /\ req = [c \in Callers |-> NoReq]
    /\ resp = [c \in Callers |-> NoResp]
    /\ spawned = 0
    /\ engine_callers = {}
    /\ late_call = FALSE
    /\ nsent = 0
    /\ napplied = 0
    /\ shutdown_sent = FALSE
    /\ issued = <<>>
    /\ release_seen = {}
    /\ released = {}
    /\ cancel_hist = [q \in QueryIds |-> <<>>]
    /\ connections = NoConnections
    /\ last_done = [a \in Aliases |-> "none"]

\* the bridge is built and installed (main.rs, before start())
Init ==
    /\ FreshBridge
    /\ cell = "set"
    /\ temp = [c \in Callers |-> NoBridge]

\* the process before any init_bridge(): BRIDGE is empty, and the bridge
\* that will be installed is as new() will build it
InitProcess ==
    /\ FreshBridge
    /\ cell = "empty"
    /\ temp = [c \in Callers |-> NoBridge]

\* ---------------------------------------------------------------- channel
\* The receiver exists while it sits in the bridge's slot or the worker
\* thread holds it; UnboundedSender::send fails once it is dropped.
RxAlive == command_rx = "stored" \/ wpc \in {"init", "recv", "busy", "drain", "clean"}

\* faulty variant: the command goes to the front
EnqueueFront(q, cmd) == <<cmd>> \o q

\* mpsc send: the command goes to the back of the queue
Enqueue(q, cmd) == Append(q, cmd)
\* blocking_recv: the command at the front
Dequeue(q) == Head(q)
AfterDequeue(q) == Tail(q)

\* faulty variant: a command sent while no worker holds the receiver is lost
SendToWorkerOnly(cmd) ==
    IF RxAlive /\ command_rx # "stored"
    THEN /\ queue' = Enqueue(queue, [cmd EXCEPT !.seq = nsent + 1])
         /\ nsent' = nsent + 1
    ELSE UNCHANGED <<queue, nsent>>

Send(cmd) ==
    IF RxAlive
    THEN /\ queue' = Enqueue(queue, [cmd EXCEPT !.seq = nsent + 1])
         /\ nsent' = nsent + 1
    ELSE UNCHANGED <<queue, nsent>>

\* Dropping the receiver drops the queued commands and with them their
\* one-shot senders: every caller still awaiting gets a RecvError.
DroppedResponse == Err("Rayforce thread dropped response channel", 0)
DropReceiver ==
    /\ queue' = <<>>
    /\ pc' = [c \in Callers |-> IF pc[c] = "await" THEN "idle" ELSE pc[c]]
    /\ resp' = [c \in Callers |-> IF pc[c] = "await" THEN DroppedResponse ELSE resp[c]]

\* a call into the engine made by thread th
EngineCall(th) ==
    /\ engine_callers' = engine_callers \cup {th}
    /\ late_call' = (late_call \/ runtime = "clean")

\* positions inside execute_scalar(), between two of its bridge calls
ScalarPending == {"scalar_execute", "scalar_get_rows"}

\* positions inside connect_server() and disconnect_server(), with the
\* answer of their Execute not yet looked at
ConnPending == {"connect", "disconnect"}

CanBegin(c) ==
    pc[c] = "idle" /\ bridge = "alive" /\ req[c].op \notin ScalarPending \cup ConnPending
CanSend == nsent < MaxCmds \/ ~RxAlive


\* ---------------------------------------------------------------- callers
\* faulty variant: the flag is not looked at
AlreadyRunningNever(was) == FALSE

\* what running.swap(true) returns: the flag as it was
AlreadyRunning(was) == was

\* start(): if self.running.swap(true) { return; }
StartSwap(c) ==
    /\ CanBegin(c)
    /\ running' = TRUE
    /\ pc' = [pc EXCEPT ![c] = IF AlreadyRunning(running) THEN "idle" ELSE "start_take"]
    /\ req' = [req EXCEPT ![c] = [NoReq EXCEPT !.op = "start"]]
    /\ UNCHANGED <<command_rx, thread_handle, bridge_cancelled, bridge, queue, workerVars,
                   engineVars, resp, spawned, nsent, shutdown_sent>>
    /\ UNCHANGED <<cancel_hist, cellVars, connVars>>

\* faulty variant: the receiver is left in its slot
TakeReceiverKeeps(slot) == slot

\* command_rx.lock().take(): what is left in the slot
TakeReceiver(slot) == "taken"

\* start(): take the receiver (panic if it is gone) and spawn the worker
StartSpawn(c) ==
    /\ pc[c] = "start_take"
    /\ IF command_rx = "stored"
       THEN /\ command_rx' = TakeReceiver(command_rx)
            /\ wpc' = "init"
            /\ spawned' = spawned + 1
            /\ pc' = [pc EXCEPT ![c] = "start_store"]
       ELSE /\ pc' = [pc EXCEPT ![c] = "panicked"]
            /\ UNCHANGED <<command_rx, wpc, spawned>>
    /\ UNCHANGED <<running, thread_handle, bridge_cancelled, bridge, queue, cur, handles,
                   next_handle, cancelled, napplied, issued, relVars, engineVars, req, resp,
                   nsent,
                   shutdown_sent>>
    /\ UNCHANGED <<cancel_hist, cellVars, connVars>>

\* thread_handle.lock() is held by a shutdown() for the whole of its join
HandleLockFree == \A d \in Callers : pc[d] # "sd_join"

\* start(): *self.thread_handle.lock() = Some(handle)
StartStore(c) ==
    /\ pc[c] = "start_store"
    /\ HandleLockFree
    /\ thread_handle' = "some"
    /\ pc' = [pc EXCEPT ![c] = "idle"]
    /\ UNCHANGED <<running, command_rx, bridge_cancelled, bridge, queue, workerVars,
                   engineVars, req, resp, spawned, nsent, shutdown_sent>>
    /\ UNCHANGED <<cancel_hist, cellVars, connVars>>

\* Release, Cancel and Shutdown carry no response channel
ShutdownCmd == [NoCmd EXCEPT !.tag = "Shutdown"]

\* shutdown(): let _ = command_tx.send(Shutdown).  drop() is shutdown()
\* followed by the drop of the fields; it needs the bridge exclusively.
ShutdownSend(c, dropping) ==
    /\ CanBegin(c)
    /\ CanSend
    /\ dropping => \A d \in Callers \ {c} : pc[d] \in {"idle", "panicked"}
    /\ Send(ShutdownCmd)
    /\ shutdown_sent' = TRUE
    /\ bridge' = IF dropping THEN "dropping" ELSE bridge
    /\ pc' = [pc EXCEPT ![c] = "sd_store"]
    /\ UNCHANGED <<running, command_rx, thread_handle, bridge_cancelled, workerVars,
                   engineVars, req, resp, spawned>>
    /\ UNCHANGED <<cancel_hist, cellVars, connVars>>

\* shutdown(): running.store(false)
ShutdownStore(c) ==
    /\ pc[c] = "sd_store"
    /\ running' = FALSE
    /\ pc' = [pc EXCEPT ![c] = "sd_take"]
    /\ UNCHANGED <<command_rx, thread_handle, bridge_cancelled, bridge, queue, workerVars,
                   engineVars, req, resp, spawned, nsent, shutdown_sent>>
    /\ UNCHANGED <<cancel_hist, cellVars, connVars>>

AfterShutdown == IF bridge = "dropping" THEN "drop_fields" ELSE "idle"

\* shutdown(): thread_handle.lock().take()
ShutdownTake(c) ==
    /\ pc[c] = "sd_take"
    /\ HandleLockFree
    /\ thread_handle' = "none"
    /\ pc' = [pc EXCEPT ![c] = IF thread_handle = "some" THEN "sd_join" ELSE AfterShutdown]
    /\ UNCHANGED <<running, command_rx, bridge_cancelled, bridge, queue, workerVars,
                   engineVars, req, resp, spawned, nsent, shutdown_sent>>
    /\ UNCHANGED <<cancel_hist, cellVars, connVars>>

\* shutdown(): handle.join() returns once the worker thread has finished
ShutdownJoin(c) ==
    /\ pc[c] = "sd_join"
    /\ wpc = "exited"
    /\ pc' = [pc EXCEPT ![c] = AfterShutdown]
    /\ UNCHANGED <<bridgeVars, queue, workerVars, engineVars, req, resp, spawned, nsent,
                   shutdown_sent>>
    /\ UNCHANGED <<cancel_hist, cellVars, connVars>>

\* drop(): the fields go: the sender, and the receiver if still in its slot
DropFields(c) ==
    /\ pc[c] = "drop_fields"
    /\ bridge' = "dropped"
    /\ pc' = [pc EXCEPT ![c] = "idle"]
    /\ IF command_rx = "stored"
       THEN command_rx' = "dropped" /\ queue' = <<>>
       ELSE UNCHANGED <<command_rx, queue>>
    /\ UNCHANGED <<running, thread_handle, bridge_cancelled, workerVars, engineVars, req,
                   resp, spawned, nsent, shutdown_sent>>
    /\ UNCHANGED <<cancel_hist, cellVars, connVars>>

\* ------------------------------------------------------- lib.rs init_bridge
AlreadyInitialized == Err("Bridge already initialized", 0)

\* init_bridge(): Arc::new(RayforceBridge::new()?)
InitBridgeNew(c) ==
    /\ pc[c] = "idle"
    /\ req[c].op \notin ScalarPending
    /\ temp' = [temp EXCEPT ![c] = NewBridge]
    /\ pc' = [pc EXCEPT ![c] = "ib_set"]
    /\ req' = [req EXCEPT ![c] = [NoReq EXCEPT !.op = "init_bridge"]]
    /\ resp' = [resp EXCEPT ![c] = NoResp]
    /\ UNCHANGED <<bridgeVars, queue, workerVars, engineVars, spawned, nsent, shutdown_sent,
                   cell>>
    /\ UNCHANGED <<cancel_hist, connVars>>

\* faulty variant: the cell takes a value whatever it holds
CellAcceptsAlways(state) == TRUE

\* OnceCell::set succeeds on an empty cell only
CellAccepts(state) == state = "empty"

\* init_bridge(): BRIDGE.set(bridge).map_err(..)?  On an empty cell the bridge
\* built by this call becomes the installed one; otherwise set hands it back
\* and it is dropped on the way to the error
InitBridgeSet(c) ==
    /\ pc[c] = "ib_set"
    /\ IF CellAccepts(cell)
       THEN /\ cell' = "set"
            /\ temp' = [temp EXCEPT ![c] = NoBridge]
            /\ pc' = [pc EXCEPT ![c] = "ib_start"]
            /\ UNCHANGED resp
       ELSE /\ pc' = [pc EXCEPT ![c] = "ib_drop_send"]
            /\ resp' = [resp EXCEPT ![c] = AlreadyInitialized]
            /\ UNCHANGED <<cell, temp>>
    /\ UNCHANGED <<bridgeVars, queue, workerVars, engineVars, req, spawned, nsent,
                   shutdown_sent>>
    /\ UNCHANGED <<cancel_hist, connVars>>

\* init_bridge(): get_bridge().start(), up to its swap of the running flag
InitBridgeStart(c) ==
    /\ pc[c] = "ib_start"
    /\ running' = TRUE
    /\ pc' = [pc EXCEPT ![c] = IF AlreadyRunning(running) THEN "idle" ELSE "start_take"]
    /\ UNCHANGED <<command_rx, thread_handle, bridge_cancelled, bridge, queue, workerVars,
                   engineVars, req, resp, spawned, nsent, shutdown_sent, cellVars>>
    /\ UNCHANGED <<cancel_hist, connVars>>

\* drop of the bridge set() refused: its shutdown() sends Shutdown on its own
\* channel
InitBridgeDropSend(c) ==
    /\ pc[c] = "ib_drop_send"
    /\ temp' = [temp EXCEPT ![c].queue =
                   IF temp[c].command_rx = "stored" THEN Enqueue(@, ShutdownCmd) ELSE @]
    /\ pc' = [pc EXCEPT ![c] = "ib_drop_store"]
    /\ UNCHANGED <<bridgeVars, queue, workerVars, engineVars, req, resp, spawned, nsent,
                   shutdown_sent, cell>>
    /\ UNCHANGED <<cancel_hist, connVars>>

\* ... stores false in its own running flag
InitBridgeDropStore(c) ==
    /\ pc[c] = "ib_drop_store"
    /\ temp' = [temp EXCEPT ![c].running = FALSE]
    /\ pc' = [pc EXCEPT ![c] = "ib_drop_take"]
    /\ UNCHANGED <<bridgeVars, queue, workerVars, engineVars, req, resp, spawned, nsent,
                   shutdown_sent, cell>>
    /\ UNCHANGED <<cancel_hist, connVars>>

\* ... finds no thread handle to join; then its fields go, and init_bridge()
\* returns the error
InitBridgeDropTake(c) ==
    /\ pc[c] = "ib_drop_take"
    /\ temp[c].thread_handle = "none"
    /\ temp' = [temp EXCEPT ![c] = NoBridge]
    /\ pc' = [pc EXCEPT ![c] = "idle"]
    /\ UNCHANGED <<bridgeVars, queue, workerVars, engineVars, req, resp, spawned, nsent,
                   shutdown_sent, cell>>
    /\ UNCHANGED <<cancel_hist, connVars>>

SendFailed == Err("Failed to send command to Rayforce thread", 0)

\* execute_query(): send Execute, then await the response
ExecuteQuery(c, query_id, code) ==
    /\ CanBegin(c)
    /\ CanSend
    /\ Send([NoCmd EXCEPT !.tag = "Execute", !.query_id = query_id, !.code = code, !.from = c])
    /\ req' = [req EXCEPT ![c] = [NoReq EXCEPT !.op = "execute", !.query_id = query_id,
                                               !.seq = IF RxAlive THEN nsent + 1 ELSE 0,
                                               !.after_shutdown = shutdown_sent,
                                               !.before_start = (command_rx = "stored")]]
    /\ IF RxAlive
       THEN pc' = [pc EXCEPT ![c] = "await"] /\ UNCHANGED resp
       ELSE resp' = [resp EXCEPT ![c] = SendFailed] /\ UNCHANGED pc
    /\ UNCHANGED <<bridgeVars, workerVars, engineVars, spawned, shutdown_sent>>
    /\ UNCHANGED <<cancel_hist, cellVars, connVars>>

\* get_rows(): send GetRows, then await the response
GetRows(c, handle, start, count) ==
    /\ CanBegin(c)
    /\ CanSend
    /\ Send([NoCmd EXCEPT !.tag = "GetRows", !.handle = handle, !.start = start,
                          !.count = count, !.from = c])
    /\ req' = [req EXCEPT ![c] = [NoReq EXCEPT !.op = "get_rows", !.handle = handle,
                                               !.start = start, !.count = count,
                                               !.seq = IF RxAlive THEN nsent + 1 ELSE 0,
                                               !.after_shutdown = shutdown_sent,
                                               !.before_start = (command_rx = "stored")]]
    /\ IF RxAlive
       THEN pc' = [pc EXCEPT ![c] = "await"] /\ UNCHANGED resp
       ELSE resp' = [resp EXCEPT ![c] = SendFailed] /\ UNCHANGED pc
    /\ UNCHANGED <<bridgeVars, workerVars, engineVars, spawned, shutdown_sent>>
    /\ UNCHANGED <<cancel_hist, cellVars, connVars>>

\* the future of execute_query() or get_rows() is dropped at its await: the
\* one-shot receiver goes, the command stays in the channel
Abandon(c) ==
    /\ pc[c] = "await"
    /\ pc' = [pc EXCEPT ![c] = "idle"]
    /\ resp' = [resp EXCEPT ![c] = NoResp]
    /\ UNCHANGED <<bridgeVars, queue, workerVars, engineVars, req, spawned, nsent,
                   shutdown_sent>>
    /\ UNCHANGED <<cancel_hist, cellVars, connVars>>

\* commands.rs execute_scalar(): execute_query("__scalar__", code).await?
ExecuteScalar(c, code) ==
    /\ CanBegin(c)
    /\ CanSend
    /\ Send([NoCmd EXCEPT !.tag = "Execute", !.query_id = "__scalar__", !.code = code,
                          !.from = c])
    /\ IF RxAlive
       THEN /\ pc' = [pc EXCEPT ![c] = "await"]
            /\ req' = [req EXCEPT ![c] = [NoReq EXCEPT !.op = "scalar_execute",
                                                       !.query_id = "__scalar__",
                                                       !.seq = nsent + 1]]
            /\ UNCHANGED resp
       ELSE /\ req' = [req EXCEPT ![c] = [NoReq EXCEPT !.op = "scalar_done"]]
            /\ resp' = [resp EXCEPT ![c] = SendFailed]
            /\ UNCHANGED pc
    /\ UNCHANGED <<bridgeVars, workerVars, engineVars, spawned, shutdown_sent>>
    /\ UNCHANGED <<cancel_hist, cellVars, connVars>>

\* execute_scalar(): rows.into_iter().next(), then the first entry of that row
FirstValue(rows) ==
    IF Len(rows) = 0 \/ DOMAIN rows[1] = {} THEN JNull
    ELSE rows[1][CHOOSE k \in DOMAIN rows[1] : TRUE]

\* execute_scalar() with the answer of its Execute: an error returns (`?`);
\* "scalar" and "vector" go on to get_rows(handle, 0, 1); every other
\* result_type releases the handle and returns the row count
ScalarAfterExecute(c) ==
    /\ pc[c] = "idle"
    /\ req[c].op = "scalar_execute"
    /\ bridge = "alive"
    /\ CanSend
    /\ IF ~resp[c].ok
       THEN /\ req' = [req EXCEPT ![c].op = "scalar_done"]
            /\ UNCHANGED <<queue, nsent, pc, resp>>
       ELSE LET meta == resp[c].meta
            IN  IF meta.result_type \in {"scalar", "vector"}
                THEN /\ Send([NoCmd EXCEPT !.tag = "GetRows", !.handle = meta.handle,
                                           !.start = 0, !.count = 1, !.from = c])
                     /\ IF RxAlive
                        THEN /\ pc' = [pc EXCEPT ![c] = "await"]
                             /\ req' = [req EXCEPT ![c].op = "scalar_get_rows",
                                                   ![c].handle = meta.handle,
                                                   ![c].count = 1,
                                                   ![c].result_type = meta.result_type,
                                                   ![c].seq = nsent + 1]
                             /\ UNCHANGED resp
                        ELSE /\ req' = [req EXCEPT ![c].op = "scalar_done",
                                                   ![c].handle = meta.handle]
                             /\ resp' = [resp EXCEPT ![c] = SendFailed]
                             /\ UNCHANGED pc
                ELSE /\ Send([NoCmd EXCEPT !.tag = "Release", !.handle = meta.handle])
                     /\ req' = [req EXCEPT ![c].op = "scalar_done", ![c].handle = meta.handle]
                     /\ resp' = [resp EXCEPT ![c] =
                                   IF RxAlive
                                   THEN OkScalar(JObj(MapInsert(EmptyMap, "rowCount",
                                                                JInt(meta.row_count))), "table")
                                   ELSE SendFailed]
                     /\ UNCHANGED pc
    /\ UNCHANGED <<bridgeVars, workerVars, engineVars, spawned, shutdown_sent>>
    /\ UNCHANGED <<cancel_hist, cellVars, connVars>>

\* execute_scalar() with the answer of its get_rows: an error returns (`?`)
\* before the release; otherwise release_handle(handle), then the value
ScalarAfterRows(c) ==
    /\ pc[c] = "idle"
    /\ req[c].op = "scalar_get_rows"
    /\ bridge = "alive"
    /\ CanSend
    /\ req' = [req EXCEPT ![c].op = "scalar_done"]
    /\ IF ~resp[c].ok
       THEN UNCHANGED <<queue, nsent, resp>>
       ELSE /\ Send([NoCmd EXCEPT !.tag = "Release", !.handle = req[c].handle])
            /\ resp' = [resp EXCEPT ![c] =
                          IF RxAlive
                          THEN OkScalar(FirstValue(resp[c].rows), req[c].result_type)
                          ELSE SendFailed]
    /\ UNCHANGED <<bridgeVars, workerVars, engineVars, pc, spawned, shutdown_sent>>
    /\ UNCHANGED <<cancel_hist, cellVars, connVars>>

\* ------------------------------------ commands.rs connect / disconnect
\* Ok(())
OkUnit == [ok |-> TRUE]

\* alias.is_empty() || !alias.chars().next().unwrap().is_alphabetic()
FirstChar(alias) == CASE alias = "a" -> "a" [] alias = "1a" -> "1" [] OTHER -> ""
Alphabetic == {"a", "b", "c", "x", "y", "z", "A", "Z"}
ValidAlias(alias) == alias # "" /\ FirstChar(alias) \in Alphabetic

\* format!("(set {} (hopen \"{}:{}\"))", alias, host, port)
ConnectCode(alias, host, port) ==
    "(set " \o alias \o " (hopen \"" \o host \o ":" \o ToString(port) \o "\"))"

\* format!("(hclose {})", alias)
DisconnectCode(alias) == "(hclose " \o alias \o ")"

\* connections.insert(alias, info) and connections.remove(&alias)
MapPut(m, k, v) == [x \in DOMAIN m \cup {k} |-> IF x = k THEN v ELSE m[x]]
MapRemove(m, k) == [x \in DOMAIN m \ {k} |-> m[x]]

\* connect_server(): the alias is validated, then the entry is made under the
\* lock of the map
ConnectInsert(c, alias, host, port) ==
    /\ CanBegin(c)
    /\ IF ~ValidAlias(alias)
       THEN /\ req' = [req EXCEPT ![c] = [NoReq EXCEPT !.op = "connect_done", !.alias = alias]]
            /\ resp' = [resp EXCEPT ![c] = Err("Alias must start with a letter", 0)]
            /\ last_done' = [last_done EXCEPT ![alias] = "connect_err"]
            /\ UNCHANGED <<pc, connections>>
       ELSE /\ connections' = MapPut(connections, alias,
                                     [host |-> host, port |-> port, by |-> c, ok |-> FALSE])
            /\ req' = [req EXCEPT ![c] = [NoReq EXCEPT !.op = "connect", !.alias = alias,
                                                       !.query_id = "__connect__" \o alias,
                                                       !.code = ConnectCode(alias, host, port)]]
            /\ pc' = [pc EXCEPT ![c] = "conn_send"]
            /\ UNCHANGED <<resp, last_done>>
    /\ UNCHANGED <<bridgeVars, queue, workerVars, engineVars, spawned, nsent, shutdown_sent>>
    /\ UNCHANGED <<cancel_hist, cellVars>>

\* execute_query(query_id, code) inside connect_server() and
\* disconnect_server(), up to its await
CommandSend(c) ==
    /\ pc[c] \in {"conn_send", "disc_send"}
    /\ CanSend
    /\ Send([NoCmd EXCEPT !.tag = "Execute", !.query_id = req[c].query_id,
                          !.code = req[c].code, !.from = c])
    /\ req' = [req EXCEPT ![c].seq = IF RxAlive THEN nsent + 1 ELSE 0]
    /\ IF RxAlive
       THEN pc' = [pc EXCEPT ![c] = "await"] /\ UNCHANGED resp
       ELSE /\ pc' = [pc EXCEPT ![c] = "idle"]
            /\ resp' = [resp EXCEPT ![c] = SendFailed]
    /\ UNCHANGED <<bridgeVars, workerVars, engineVars, spawned, shutdown_sent>>
    /\ UNCHANGED <<cancel_hist, cellVars, connVars>>

\* Err(e) => connections.remove(&alias): whatever entry the alias has
RemoveOnFailure(m, alias, c) == MapRemove(m, alias)

\* connect_server() with the answer of its Execute: Ok(()) when it succeeded,
\* otherwise the alias is taken out of the map and the error returned
ConnectReturn(c) ==
    /\ pc[c] = "idle"
    /\ req[c].op = "connect"
    /\ req' = [req EXCEPT ![c].op = "connect_done"]
    /\ IF resp[c].ok
       THEN /\ resp' = [resp EXCEPT ![c] = OkUnit]
            /\ last_done' = [last_done EXCEPT ![req[c].alias] = "connect_ok"]
            /\ connections' =
                  IF req[c].alias \in DOMAIN connections /\ connections[req[c].alias].by = c
                  THEN [connections EXCEPT ![req[c].alias].ok = TRUE]
                  ELSE connections
       ELSE /\ resp' = [resp EXCEPT ![c] = Err("Failed to connect: " \o resp[c].err, resp[c].arg)]
            /\ last_done' = [last_done EXCEPT ![req[c].alias] = "connect_err"]
            /\ connections' = RemoveOnFailure(connections, req[c].alias, c)
    /\ UNCHANGED <<bridgeVars, queue, workerVars, engineVars, pc, spawned, nsent, shutdown_sent>>
    /\ UNCHANGED <<cancel_hist, cellVars>>

\* disconnect_server(): the alias is taken out of the map under its lock;
\* an alias that is not there is an error
DisconnectRemove(c, alias) ==
    /\ CanBegin(c)
    /\ IF alias \notin DOMAIN connections
       THEN /\ req' = [req EXCEPT ![c] = [NoReq EXCEPT !.op = "disconnect_done", !.alias = alias]]
            /\ resp' = [resp EXCEPT ![c] = Err("No connection with alias '" \o alias \o "'", 0)]
            /\ last_done' = [last_done EXCEPT ![alias] = "disconnect_err"]
            /\ UNCHANGED <<pc, connections>>
       ELSE /\ connections' = MapRemove(connections, alias)
            /\ req' = [req EXCEPT ![c] = [NoReq EXCEPT !.op = "disconnect", !.alias = alias,
                                                       !.query_id = "__disconnect__" \o alias,
                                                       !.code = DisconnectCode(alias)]]
            /\ pc' = [pc EXCEPT ![c] = "disc_send"]
            /\ UNCHANGED <<resp, last_done>>
    /\ UNCHANGED <<bridgeVars, queue, workerVars, engineVars, spawned, nsent, shutdown_sent>>
    /\ UNCHANGED <<cancel_hist, cellVars>>

\* disconnect_server() with the answer of its Execute: Ok(()) either way
DisconnectReturn(c) ==
    /\ pc[c] = "idle"
    /\ req[c].op = "disconnect"
    /\ req' = [req EXCEPT ![c].op = "disconnect_done"]
    /\ resp' = [resp EXCEPT ![c] = OkUnit]
    /\ last_done' = [last_done EXCEPT ![req[c].alias] = "disconnect_ok"]
    /\ UNCHANGED <<bridgeVars, queue, workerVars, engineVars, pc, spawned, nsent, shutdown_sent>>
    /\ UNCHANGED <<cancel_hist, cellVars, connections>>

\* release_handle(): send Release; nothing to await
ReleaseHandle(c, handle) ==
    /\ CanBegin(c)
    /\ CanSend
    /\ Send([NoCmd EXCEPT !.tag = "Release", !.handle = handle])
    /\ UNCHANGED <<bridgeVars, workerVars, engineVars, pc, req, resp, spawned, shutdown_sent>>
    /\ UNCHANGED <<cancel_hist, cellVars, connVars>>

\* cancel_query(): note the id in the bridge's own set, send Cancel
CancelQuery(c, query_id) ==
    /\ CanBegin(c)
    /\ CanSend
    /\ bridge_cancelled' = bridge_cancelled \cup {query_id}
    /\ Send([NoCmd EXCEPT !.tag = "Cancel", !.query_id = query_id])
    /\ req' = [d \in Callers |->
                 IF pc[d] = "await" /\ req[d].op = "execute" /\ req[d].query_id = query_id
                 THEN [req[d] EXCEPT !.cancel_seen = TRUE] ELSE req[d]]
    /\ UNCHANGED <<running, command_rx, thread_handle, bridge, workerVars, engineVars, pc,
                   resp, spawned, shutdown_sent>>
    /\ UNCHANGED <<cancel_hist, cellVars, connVars>>


\* ----------------------------------------------------------------- worker
\* the record of a cancellation after the worker processed a command: a
\* Cancel of an id not on record opens it, and while the id is in the
\* cancelled set every command processed is added, the Execute of the id
\* that uses the cancellation up being the last
HistAfter(tag, id) ==
    [q \in QueryIds |->
        IF tag = "Cancel" /\ id = q /\ q \notin cancelled THEN <<"Cancel">>
        ELSE IF q \in cancelled
             THEN Append(cancel_hist[q], IF tag = "Execute" /\ id # q THEN "ExecuteOther" ELSE tag)
             ELSE cancel_hist[q]]

\* the caller of the command the worker holds still awaits its response
Awaited == cur.from \in Callers /\ pc[cur.from] = "await" /\ req[cur.from].seq = cur.seq

\* faulty variant: the worker waits for the receiver of its response
RespondBlocks(c, result) ==
    /\ Awaited
    /\ pc' = [pc EXCEPT ![c] = "idle"]
    /\ resp' = [resp EXCEPT ![c] = result]

\* let _ = response.send(result): delivered if the caller still awaits it,
\* thrown away if the receiver was dropped
Respond(c, result) ==
    IF Awaited
    THEN /\ pc' = [pc EXCEPT ![c] = "idle"]
         /\ resp' = [resp EXCEPT ![c] = result]
    ELSE UNCHANGED <<pc, resp>>

\* faulty variant: the failure is logged and the worker goes on to its loop
AfterInitFailureLoops == "recv"

\* if init_result != 0 { ...; return; }: the thread function is over
AfterInitFailure == "exited"

\* rayforce_thread_main up to the command loop: ray_init, then the self-test
\* (eval_str("(til 10)"), dropped at once when it is not null)
WorkerInit ==
    /\ wpc = "init"
    /\ EngineCall(WorkerThread)
    /\ \E init_result \in {0, 1} :
          IF init_result # 0
          THEN /\ runtime' = "failed"
               /\ wpc' = AfterInitFailure
               /\ DropReceiver
               /\ UNCHANGED objs
          ELSE /\ runtime' = "up"
               /\ wpc' = "recv"
               /\ objs' = IF EvalStr("(til 10)").null THEN objs
                          ELSE Append(objs, [code |-> "(til 10)", drops |-> 1])
               /\ UNCHANGED <<queue, pc, resp>>
    /\ UNCHANGED <<bridgeVars, cur, handles, next_handle, cancelled, napplied, issued, relVars,
                   req,
                   spawned, nsent, shutdown_sent>>
    /\ UNCHANGED <<cancel_hist, cellVars, connVars>>

\* command_rx.blocking_recv().  The sender lives as long as the bridge, and
\* drop() sends Shutdown and joins before the sender goes, so the loop never
\* sees a closed channel ahead of a Shutdown.
WorkerRecv ==
    /\ wpc = "recv"
    /\ queue # <<>>
    /\ cur' = Dequeue(queue)
    /\ queue' = AfterDequeue(queue)
    /\ napplied' = napplied + 1
    /\ wpc' = "busy"
    /\ UNCHANGED <<bridgeVars, handles, next_handle, cancelled, issued, relVars, engineVars, pc,
                   req,
                   resp, spawned, nsent, shutdown_sent>>
    /\ UNCHANGED <<cancel_hist, cellVars, connVars>>

\* faulty variant: the smallest handle not in the table
NewHandleReuse(nh) == CHOOSE h \in 1..nh : h \notin DOMAIN handles /\ \A g \in 1..(h - 1) : g \in DOMAIN handles

\* the handle execute_query_impl gives the next stored value
NewHandle(nh) == nh

\* faulty variant: the value is not dropped
DropObjNot(os, i) == os

\* drop_obj on the value at index i of objs
DropObj(os, i) == [os EXCEPT ![i].drops = @ + 1]

\* faulty variant: the handle is taken before the result is looked at, so an
\* Execute that fails uses one up
execute_query_implEarlyHandle(code) ==
    LET result == EvalStr(code)
        handle == NewHandle(next_handle)
    IN  IF HasNul(code)
        THEN [res |-> Err("Invalid query string", 0), handles |-> handles,
              next_handle |-> next_handle, objs |-> objs, called |-> FALSE]
        ELSE IF result.null
        THEN [res |-> Err("Query returned null", 0), handles |-> handles,
              next_handle |-> next_handle + 1, objs |-> objs, called |-> TRUE]
        ELSE IF is_error(result)
        THEN [res |-> Err(extract_error_message(result), 0), handles |-> handles,
              next_handle |-> next_handle + 1,
              objs |-> DropObj(Append(objs, [code |-> code, drops |-> 0]), Len(objs) + 1),
              called |-> TRUE]
        ELSE [res |-> OkMeta(extract_query_meta(handle, result)),
              handles |-> [h \in DOMAIN handles \cup {handle} |->
                              IF h = handle THEN Len(objs) + 1 ELSE handles[h]],
              next_handle |-> next_handle + 1,
              objs |-> Append(objs, [code |-> code, drops |-> 0]), called |-> TRUE]

\* execute_query_impl: (result, handles', next_handle', objs')
execute_query_impl(code) ==
    LET result == EvalStr(code)
        handle == NewHandle(next_handle)
    IN  IF HasNul(code)
        THEN [res |-> Err("Invalid query string", 0), handles |-> handles,
              next_handle |-> next_handle, objs |-> objs, called |-> FALSE]
        ELSE IF result.null
        THEN [res |-> Err("Query returned null", 0), handles |-> handles,
              next_handle |-> next_handle, objs |-> objs, called |-> TRUE]
        ELSE IF is_error(result)
        THEN [res |-> Err(extract_error_message(result), 0), handles |-> handles,
              next_handle |-> next_handle,
              objs |-> DropObj(Append(objs, [code |-> code, drops |-> 0]), Len(objs) + 1),
              called |-> TRUE]
        ELSE [res |-> OkMeta(extract_query_meta(handle, result)),
              handles |-> [h \in DOMAIN handles \cup {handle} |->
                              IF h = handle THEN Len(objs) + 1 ELSE handles[h]],
              next_handle |-> next_handle + 1,
              objs |-> Append(objs, [code |-> code, drops |-> 0]), called |-> TRUE]

\* faulty variant: the cancelled set is not looked at
IsCancelledNever(query_id) == FALSE

\* whether the Execute is answered "Query cancelled" without evaluation
IsCancelled(query_id) == query_id \in cancelled

\* faulty variant: the loop is left after any command
LoopAfterBreaks(tag) == "drain"

\* where the worker goes after a command: Shutdown breaks out of the loop,
\* every other arm falls through to the next blocking_recv
LoopAfter(tag) == IF tag = "Shutdown" THEN "drain" ELSE "recv"

WorkerExecute ==
    /\ wpc = "busy"
    /\ cur.tag = "Execute"
    /\ IF IsCancelled(cur.query_id)
       THEN /\ cancelled' = cancelled \ {cur.query_id}
            /\ Respond(cur.from, Err("Query cancelled", 0))
            /\ UNCHANGED <<handles, next_handle, issued, engineVars>>
       ELSE LET r == execute_query_impl(cur.code)
            IN  /\ handles' = r.handles
                /\ next_handle' = r.next_handle
                /\ objs' = r.objs
                /\ issued' = IF r.res.ok THEN Append(issued, r.res.meta.handle) ELSE issued
                /\ IF r.called THEN EngineCall(WorkerThread)
                   ELSE UNCHANGED <<engine_callers, late_call>>
                /\ Respond(cur.from, r.res)
                /\ UNCHANGED <<cancelled, runtime>>
    /\ wpc' = LoopAfter(cur.tag)
    /\ cur' = NoCmd
    /\ UNCHANGED <<bridgeVars, queue, napplied, relVars, req, spawned, nsent, shutdown_sent>>
    /\ cancel_hist' = HistAfter(cur.tag, cur.query_id)
    /\ UNCHANGED <<cellVars, connVars>>

\* the value a live handle holds
HandleObj(h) == EvalStr(objs[handles[h]].code)

get_rows_impl(handle, start, count) ==
    IF handle \notin DOMAIN handles THEN Err("Invalid handle", handle)
    ELSE RowsOfValue(HandleObj(handle), start, count)

\* faulty variant: reading the rows of a handle uses the handle up
WorkerGetRowsConsumes ==
    /\ wpc = "busy"
    /\ cur.tag = "GetRows"
    /\ Respond(cur.from, get_rows_impl(cur.handle, cur.start, cur.count))
    /\ IF cur.handle \in DOMAIN handles THEN EngineCall(WorkerThread)
       ELSE UNCHANGED <<engine_callers, late_call>>
    /\ handles' = [h \in DOMAIN handles \ {cur.handle} |-> handles[h]]
    /\ wpc' = LoopAfter(cur.tag)
    /\ cur' = NoCmd
    /\ UNCHANGED <<bridgeVars, queue, next_handle, cancelled, napplied, issued, relVars,
                   runtime, objs, req, spawned, nsent, shutdown_sent>>
    /\ cancel_hist' = HistAfter(cur.tag, cur.query_id)
    /\ UNCHANGED <<cellVars, connVars>>

\* GetRows: get_rows_impl reads the table through a shared reference
WorkerGetRows ==
    /\ wpc = "busy"
    /\ cur.tag = "GetRows"
    /\ Respond(cur.from, get_rows_impl(cur.handle, cur.start, cur.count))
    /\ IF cur.handle \in DOMAIN handles THEN EngineCall(WorkerThread)
       ELSE UNCHANGED <<engine_callers, late_call>>
    /\ wpc' = LoopAfter(cur.tag)
    /\ cur' = NoCmd
    /\ UNCHANGED <<bridgeVars, queue, handles, next_handle, cancelled, napplied, issued, relVars,
                   runtime, objs, req, spawned, nsent, shutdown_sent>>
    /\ cancel_hist' = HistAfter(cur.tag, cur.query_id)
    /\ UNCHANGED <<cellVars, connVars>>

\* faulty variant: the value is dropped but stays in the table
RemoveHandleKeeps(hs, handle) == hs

\* handles.remove(&handle): the table without the handle
RemoveHandle(hs, handle) == [h \in DOMAIN hs \ {handle} |-> hs[h]]

WorkerRelease ==
    /\ wpc = "busy"
    /\ cur.tag = "Release"
    /\ IF cur.handle \in DOMAIN handles
       THEN /\ objs' = DropObj(objs, handles[cur.handle])
            /\ handles' = RemoveHandle(handles, cur.handle)
            /\ EngineCall(WorkerThread)
       ELSE UNCHANGED <<objs, handles, engine_callers, late_call>>
    /\ release_seen' = release_seen \cup {cur.handle}
    /\ released' = IF cur.handle < next_handle THEN released \cup {cur.handle} ELSE released
    /\ wpc' = LoopAfter(cur.tag)
    /\ cur' = NoCmd
    /\ UNCHANGED <<bridgeVars, queue, next_handle, cancelled, napplied, issued, runtime, pc, req,
                   resp, spawned, nsent, shutdown_sent>>
    /\ cancel_hist' = HistAfter(cur.tag, cur.query_id)
    /\ UNCHANGED <<cellVars, connVars>>

\* faulty variant: a Cancel with no Execute of its id waiting is forgotten
InsertCancelledIfQueued(set, id) ==
    IF \E i \in 1..Len(queue) : queue[i].tag = "Execute" /\ queue[i].query_id = id
    THEN set \cup {id} ELSE set

\* cancelled.insert(query_id)
InsertCancelled(set, id) == set \cup {id}

WorkerCancel ==
    /\ wpc = "busy"
    /\ cur.tag = "Cancel"
    /\ cancelled' = InsertCancelled(cancelled, cur.query_id)
    /\ wpc' = LoopAfter(cur.tag)
    /\ cur' = NoCmd
    /\ UNCHANGED <<bridgeVars, queue, handles, next_handle, napplied, issued, relVars, engineVars,
                   pc,
                   req, resp, spawned, nsent, shutdown_sent>>
    /\ cancel_hist' = HistAfter(cur.tag, cur.query_id)
    /\ UNCHANGED <<cellVars, connVars>>

\* Shutdown: break out of the loop
WorkerShutdown ==
    /\ wpc = "busy"
    /\ cur.tag = "Shutdown"
    /\ wpc' = LoopAfter(cur.tag)
    /\ cur' = NoCmd
    /\ UNCHANGED <<bridgeVars, queue, handles, next_handle, cancelled, napplied, issued, relVars,
                   engineVars, pc, req, resp, spawned, nsent, shutdown_sent>>
    /\ cancel_hist' = HistAfter(cur.tag, cur.query_id)
    /\ UNCHANGED <<cellVars, connVars>>

\* faulty variant: the cleanup loop is skipped
DrainNone(hs) == {}

\* the handles the cleanup loop drops
DrainSet(hs) == DOMAIN hs

RECURSIVE DropAll(_, _)
DropAll(os, is) ==
    IF is = {} THEN os
    ELSE LET i == CHOOSE x \in is : TRUE IN DropAll(DropObj(os, i), is \ {i})

\* for (handle, obj) in handles.drain() { drop_obj(obj) }
WorkerDrain ==
    /\ wpc = "drain"
    /\ objs' = DropAll(objs, {handles[h] : h \in DrainSet(handles)})
    /\ handles' = EmptyHandles
    /\ IF handles # EmptyHandles THEN EngineCall(WorkerThread)
       ELSE UNCHANGED <<engine_callers, late_call>>
    /\ wpc' = "clean"
    /\ UNCHANGED <<bridgeVars, queue, cur, next_handle, cancelled, napplied, issued, relVars,
                   runtime,
                   pc, req, resp, spawned, nsent, shutdown_sent>>
    /\ UNCHANGED <<cancel_hist, cellVars, connVars>>

\* ray_clean(), then the thread function returns and drops the receiver
WorkerClean ==
    /\ wpc = "clean"
    /\ EngineCall(WorkerThread)
    /\ runtime' = "clean"
    /\ wpc' = "exited"
    /\ DropReceiver
    /\ UNCHANGED <<bridgeVars, cur, handles, next_handle, cancelled, napplied, issued, relVars,
                   objs,
                   req, spawned, nsent, shutdown_sent>>
    /\ UNCHANGED <<cancel_hist, cellVars, connVars>>

\* --------------------------------------------------------- specifications
CallerStep(c) ==
    \/ StartSwap(c)
    \/ StartSpawn(c)
    \/ StartStore(c)
    \/ ShutdownSend(c, FALSE)
    \/ ShutdownSend(c, TRUE)
    \/ ShutdownStore(c)
    \/ ShutdownTake(c)
    \/ ShutdownJoin(c)
    \/ DropFields(c)

WorkerStep ==
    \/ WorkerInit
    \/ WorkerRecv
    \/ WorkerExecute
    \/ WorkerGetRows
    \/ WorkerRelease
    \/ WorkerCancel
    \/ WorkerShutdown
    \/ WorkerDrain
    \/ WorkerClean

\* Concurrent callers, few inputs.
Next ==
    \/ \E c \in Callers : CallerStep(c)
    \/ \E c \in Callers, q \in QueryIds, code \in Codes : ExecuteQuery(c, q, code)
    \/ \E c \in Callers, h \in 1..2 : GetRows(c, h, 0, 1)
    \/ \E c \in Callers, h \in 1..2 : ReleaseHandle(c, h)
    \/ \E c \in Callers, q \in QueryIds : CancelQuery(c, q)
    \/ WorkerStep

Spec == Init /\ [][Next]_vars

\* One caller and the first handle: every kind of value, every start and
\* count up to MaxIdx.
NextRows ==
    \/ StartSwap(1)
    \/ StartSpawn(1)
    \/ StartStore(1)
    \/ ShutdownSend(1, FALSE)
    \/ ShutdownStore(1)
    \/ ShutdownTake(1)
    \/ ShutdownJoin(1)
    \/ \E q \in QueryIds, code \in RowCodes : ExecuteQuery(1, q, code)
    \/ \E start \in 0..MaxIdx, count \in 0..MaxIdx : GetRows(1, 1, start, count)
    \/ ReleaseHandle(1, 1)
    \/ \E q \in QueryIds : CancelQuery(1, q)
    \/ WorkerStep

RowSpec == Init /\ [][NextRows]_vars

\* One caller who may stop awaiting a response and go on to other calls.
NextAbandon ==
    \/ StartSwap(1)
    \/ StartSpawn(1)
    \/ StartStore(1)
    \/ ShutdownSend(1, FALSE)
    \/ ShutdownStore(1)
    \/ ShutdownTake(1)
    \/ ShutdownJoin(1)
    \/ \E q \in QueryIds, code \in Codes : ExecuteQuery(1, q, code)
    \/ \E h \in 1..2 : GetRows(1, h, 0, 1)
    \/ \E h \in 1..2 : ReleaseHandle(1, h)
    \/ \E q \in QueryIds : CancelQuery(1, q)
    \/ Abandon(1)
    \/ WorkerStep

AbandonSpec == Init /\ [][NextAbandon]_vars

\* Caller 1 runs execute_scalar(); caller 2 releases, cancels and shuts down
\* around it.
NextScalar ==
    \/ StartSwap(1)
    \/ StartSpawn(1)
    \/ StartStore(1)
    \/ \E code \in RowCodes : ExecuteScalar(1, code)
    \/ ScalarAfterExecute(1)
    \/ ScalarAfterRows(1)
    \/ ReleaseHandle(2, 1)
    \/ CancelQuery(2, "__scalar__")
    \/ ShutdownSend(2, FALSE)
    \/ ShutdownStore(2)
    \/ ShutdownTake(2)
    \/ ShutdownJoin(2)
    \/ WorkerStep

ScalarSpec == Init /\ [][NextScalar]_vars

\* Concurrent connect_server and disconnect_server calls on a started bridge.
NextConn ==
    \/ StartSwap(1)
    \/ StartSpawn(1)
    \/ StartStore(1)
    \/ \E c \in Callers, alias \in Aliases, host \in Hosts, port \in Ports :
          ConnectInsert(c, alias, host, port)
    \/ \E c \in Callers : CommandSend(c)
    \/ \E c \in Callers : ConnectReturn(c)
    \/ \E c \in Callers, alias \in Aliases : DisconnectRemove(c, alias)
    \/ \E c \in Callers : DisconnectReturn(c)
    \/ WorkerInit
    \/ WorkerRecv
    \/ WorkerExecute

ConnSpec == Init /\ [][NextConn]_vars

\* The same calls made by one caller, one after the other.
NextConnSeq ==
    \/ StartSwap(1)
    \/ StartSpawn(1)
    \/ StartStore(1)
    \/ \E alias \in Aliases, host \in Hosts, port \in Ports : ConnectInsert(1, alias, host, port)
    \/ CommandSend(1)
    \/ ConnectReturn(1)
    \/ \E alias \in Aliases : DisconnectRemove(1, alias)
    \/ DisconnectReturn(1)
    \/ WorkerInit
    \/ WorkerRecv
    \/ WorkerExecute

ConnSeqSpec == Init /\ [][NextConnSeq]_vars

\* One caller whose first command is an Execute of one value of every kind,
\* followed by GetRows of its handle: the row functions and the materializer
\* applied to each value.
NextValues ==
    \/ StartSwap(1)
    \/ StartSpawn(1)
    \/ StartStore(1)
    \/ \E q \in QueryIds, code \in ValCodes : nsent = 0 /\ ExecuteQuery(1, q, code)
    \/ \E start \in 0..MaxIdx, count \in 0..MaxIdx : GetRows(1, 1, start, count)
    \/ WorkerInit
    \/ WorkerRecv
    \/ WorkerExecute
    \/ WorkerGetRows

ValueSpec == Init /\ [][NextValues]_vars

\* The process from before its first init_bridge(): both callers may call
\* init_bridge() at any time, and query the installed bridge (get_bridge()
\* panics while there is none).
NextInit ==
    \/ \E c \in Callers : InitBridgeNew(c)
    \/ \E c \in Callers : InitBridgeSet(c)
    \/ \E c \in Callers : InitBridgeStart(c)
    \/ \E c \in Callers : InitBridgeDropSend(c)
    \/ \E c \in Callers : InitBridgeDropStore(c)
    \/ \E c \in Callers : InitBridgeDropTake(c)
    \/ \E c \in Callers : StartSpawn(c)
    \/ \E c \in Callers : StartStore(c)
    \/ \E c \in Callers, q \in QueryIds : cell = "set" /\ ExecuteQuery(c, q, "(til 3)")
    \/ WorkerInit
    \/ WorkerRecv
    \/ WorkerExecute

InitSpec == InitProcess /\ [][NextInit]_vars

\* The same system with its scheduling assumptions: the worker thread keeps
\* running, and a caller inside start(), shutdown() or drop() finishes it.
\* Nothing obliges a caller to begin a call.
ContinueCall(c) ==
    \/ StartSpawn(c)
    \/ StartStore(c)
    \/ ShutdownStore(c)
    \/ ShutdownTake(c)
    \/ ShutdownJoin(c)
    \/ DropFields(c)

FairSpec == Spec /\ WF_vars(WorkerStep) /\ \A c \in Callers : WF_vars(ContinueCall(c))

\* ================================================================= claims

\* C1: however start(), shutdown(), drop and the requests of concurrent
\* callers interleave, thread::spawn runs at most once, and every call into
\* the engine is made by the worker thread.
C1_SingleWorkerThread == spawned <= 1 /\ engine_callers \subseteq {WorkerThread}

\* a second start() after a shutdown panicked; the only worker has run,
\* called the engine and stopped
C1_Witness ==
    /\ spawned = 1
    /\ runtime = "clean"
    /\ engine_callers = {WorkerThread}
    /\ \E c \in Callers : pc[c] = "panicked"

\* C2: the handles of successful Executes start at 1 and strictly increase
\* in processing order; no handle is issued twice, released or not.
C2_HandlesIncreasing ==
    /\ Len(issued) > 0 => issued[1] = 1
    /\ \A i, j \in 1..Len(issued) : i < j => issued[i] < issued[j]

\* a second handle is issued after the first one was released
C2_Witness == Len(issued) = 2 /\ 1 \in released /\ 2 \in DOMAIN handles

\* C3: every non-null value eval_str returned is dropped exactly once by the
\* time the worker has terminated: never twice, a value still in the table is
\* not yet dropped, and a value not in the table is already dropped.
C3_ReleasedExactlyOnce ==
    /\ \A i \in 1..Len(objs) : objs[i].drops <= 1
    /\ \A h \in DOMAIN handles : objs[handles[h]].drops = 0
    /\ \A i \in 1..Len(objs) : objs[i].drops = 0 => \E h \in DOMAIN handles : handles[h] = i
    /\ wpc = "exited" => \A i \in 1..Len(objs) : objs[i].drops = 1

\* the worker has terminated after a stored value and an error value
C3_Witness ==
    /\ wpc = "exited"
    /\ runtime = "clean"
    /\ \E i, j \in 1..Len(objs) : objs[i].code = "(til 3)" /\ objs[j].code = "(raise 'ab')"

\* the caller's last result came from the worker, not from a closed channel
WorkerAnswered(c) ==
    resp[c].ok \/ resp[c].err \notin {"", SendFailed.err, DroppedResponse.err}

\* C4: an Execute the worker completed, with a Cancel of its id sent while it
\* was still queued or being evaluated, resolves to "Query cancelled" and
\* gets no handle.
C4_CancelBeforeCompletion ==
    \A c \in Callers :
        (pc[c] = "idle" /\ req[c].op = "execute" /\ req[c].cancel_seen /\ WorkerAnswered(c))
            => (~resp[c].ok /\ resp[c].err = "Query cancelled")

\* the worker finishes the command it holds
WorkerFinishes(tag) == wpc = "busy" /\ cur.tag = tag /\ wpc' = "recv"

\* a Release of a handle that is released already or was never issued changes
\* nothing: no drop_obj, the table as it was, no result for anyone
ReleaseIsNoOp ==
    (WorkerFinishes("Release") /\ (cur.handle \in released \/ cur.handle >= next_handle))
        => /\ handles' = handles
           /\ objs' = objs
           /\ engine_callers' = engine_callers
           /\ resp' = resp
           /\ pc' = pc

\* the GetRows the worker holds names a handle of hs and is answered Invalid handle
InvalidAfter(hs) ==
    (WorkerFinishes("GetRows") /\ cur.handle \in hs /\ Awaited)
        => resp'[cur.from] = Err("Invalid handle", cur.handle)

\* C5 as stated: once a Release(h) has been processed, every later
\* GetRows(h, start, count) fails with Invalid handle, and a repeated or
\* never-issued Release is a no-op.
C5_AfterAnyRelease == [][InvalidAfter(release_seen) /\ ReleaseIsNoOp]_vars

\* C5 as amended: once a Release(h) of a handle h that had been issued has
\* been processed, every later GetRows(h, start, count) fails with Invalid
\* handle; a repeated or never-issued Release is a no-op.
C5_AfterReleaseOfIssued == [][InvalidAfter(released) /\ ReleaseIsNoOp]_vars

\* a GetRows of a released handle was answered Invalid handle
C5_Witness ==
    /\ pc[1] = "idle"
    /\ req[1].op = "get_rows"
    /\ req[1].handle \in released
    /\ resp[1] = Err("Invalid handle", req[1].handle)

\* what C6 speaks of: the length of a vector, list or table, and the row
\* built from element (or table row) idx
HasLength(obj) == (obj.type_ >= 0 /\ obj.type_ <= 12) \/ obj.type_ = TYPE_TABLE
LengthOf(obj) ==
    IF obj.type_ = TYPE_TABLE THEN Len(obj.vals[1].elems[1].elems) ELSE Len(obj.elems)
RowFrom(obj, idx) ==
    IF obj.type_ = TYPE_TABLE
    THEN LET keys == obj.keys[1]
             cols == obj.vals[1].elems
             name(k) == symbol_to_string(at_idx(keys, k - 1))
         IN  [n \in {name(k) : k \in 1..Len(cols)} |->
                 obj_to_json(at_idx(cols[CHOOSE k \in 1..Len(cols) : name(k) = n], idx))]
    ELSE [value |-> obj_to_json(at_idx(obj, idx))]

\* C6: GetRows(h, start, count) on a live vector, list or table of length L
\* answers min(count, L - start) rows if start < L and none otherwise, never
\* an error; row i is built from element start + i.
C6_ClampedRows ==
    [][(/\ WorkerFinishes("GetRows")
        /\ cur.handle \in DOMAIN handles
        /\ HasLength(HandleObj(cur.handle))
        /\ Awaited)
       => LET obj == HandleObj(cur.handle)
              L == LengthOf(obj)
              n == IF cur.start < L THEN Min(cur.count, L - cur.start) ELSE 0
              r == resp'[cur.from]
          IN  /\ r.ok
              /\ Len(r.rows) = n
              /\ \A i \in 1..n : r.rows[i] = RowFrom(obj, cur.start + (i - 1))]_vars

\* GetRows(h, 1, 3) on the 3-element vector gave the 2 rows of elements 1 and 2
C6_Witness ==
    /\ pc[1] = "idle"
    /\ req[1].op = "get_rows" /\ req[1].start = 1 /\ req[1].count = 3
    /\ resp[1] = OkRows(<<ValueRow(JInt(1)), ValueRow(JInt(2))>>)

\* C7: GetRows on a live handle, whatever the tag of its value, never
\* answers more than count rows (none for count = 0).
C7_AtMostCountRows ==
    \A c \in Callers :
        (pc[c] = "idle" /\ req[c].op = "get_rows" /\ resp[c].ok)
            => Len(resp[c].rows) <= req[c].count

\* C8: once the worker has left its loop and cleaned up, the table is empty
\* and every value it held is dropped; ray_clean comes only after that.
C8_ShutdownReleasesAll ==
    /\ wpc \in {"clean", "exited"} =>
          DOMAIN handles = {} /\ \A i \in 1..Len(objs) : objs[i].drops = 1
    /\ runtime = "clean" => wpc = "exited"

\* the runtime is torn down after a value was stored that no caller released
C8_Witness == runtime = "clean" /\ Len(issued) >= 1 /\ release_seen = {}

\* C9: the worker receives the commands in the order they were sent, each
\* once: the n-th command it receives is the n-th command sent.
C9_FifoOrder ==
    /\ wpc = "busy" => cur.seq = napplied
    /\ \A i \in 1..Len(queue) : queue[i].seq = napplied + i

\* the worker holds caller 1's command while caller 2's waits behind it
C9_Witness ==
    /\ wpc = "busy" /\ cur.from = 1 /\ napplied = 2
    /\ Len(queue) = 1 /\ queue[1].from = 2

\* C10: a call whose command is sent after Shutdown resolves, and to an
\* error; the worker never processes its command, and the engine is not
\* called after ray_clean.
C10_AfterShutdown ==
    /\ [](\A c \in Callers : (pc[c] = "idle" /\ req[c].after_shutdown) => ~resp[c].ok)
    /\ [](wpc = "busy" /\ cur.tag \in {"Execute", "GetRows"} /\ Awaited => ~req[cur.from].after_shutdown)
    /\ [](~late_call)
    /\ \A c \in Callers : (pc[c] = "await" /\ req[c].after_shutdown) ~> (pc[c] # "await")

\* the parts of C10 a finite run could refute
C10_SafetyPart ==
    /\ \A c \in Callers : (pc[c] = "idle" /\ req[c].after_shutdown) => ~resp[c].ok
    /\ wpc = "busy" /\ cur.tag \in {"Execute", "GetRows"} /\ Awaited => ~req[cur.from].after_shutdown
    /\ ~late_call

\* C11: a start() that finds the bridge running returns at once: no thread
\* is spawned, the stored receiver is not touched, the caller does not
\* panic, and the worker, its table and the channel are as they were; so too
\* when another start() is still under way.
C11_StartIdempotent ==
    [][\A c \in Callers :
          (running /\ StartSwap(c))
              => /\ pc'[c] = "idle"
                 /\ spawned' = spawned
                 /\ command_rx' = command_rx
                 /\ UNCHANGED <<thread_handle, queue, workerVars, engineVars>>]_vars

\* caller 2's start() returned while caller 1, who spawned the worker, has
\* not yet stored the join handle
C11_Witness ==
    /\ pc[1] = "start_store" /\ spawned = 1
    /\ pc[2] = "idle" /\ req[2].op = "start"

\* the worker thread is in its loop, receiving or about to
Consuming == wpc \in {"init", "recv", "busy"}

\* C12: a start() made once the receiver is out of its slot spawns nothing,
\* and does not return normally with the bridge flagged running while no
\* worker consumes the channel (no shutdown() being under way).
C12_StartAfterTakeFailsFast ==
    [][/\ spawned' > spawned => command_rx = "stored"
       /\ \A c \in Callers :
             (/\ command_rx # "stored"
              /\ StartSwap(c)
              /\ \A d \in Callers : pc[d] \in {"idle", "panicked"})
                 => ~(pc'[c] = "idle" /\ running' /\ ~Consuming)]_vars

\* C13: an Execute processed while its id is in the cancelled set takes the
\* id out of the set, answers "Query cancelled" and evaluates nothing; an
\* Execute whose id is not in the set is evaluated; an id enters the set only
\* by a Cancel of it, so the Execute after a cancelled one is evaluated.
C13_CancelConsumed ==
    [][/\ (WorkerFinishes("Execute") /\ cur.query_id \in cancelled)
            => /\ cancelled' = cancelled \ {cur.query_id}
               /\ Awaited => resp'[cur.from] = Err("Query cancelled", 0)
               /\ UNCHANGED <<handles, next_handle, issued, engineVars>>
       /\ (WorkerFinishes("Execute") /\ cur.query_id \notin cancelled)
            => /\ cancelled' = cancelled
               /\ Awaited => resp'[cur.from] = execute_query_impl(cur.code).res
               /\ ~HasNul(cur.code) => engine_callers' = engine_callers \cup {WorkerThread}
       /\ \A q \in QueryIds :
             (q \in cancelled' /\ q \notin cancelled)
                 => (wpc = "busy" /\ cur.tag = "Cancel" /\ cur.query_id = q)]_vars

\* caller 1's Execute of q1 was answered "Query cancelled"; the cancellation
\* is used up and the worker now holds the next Execute of q1
C13_Witness ==
    /\ pc[1] = "idle" /\ req[1].op = "execute" /\ resp[1] = Err("Query cancelled", 0)
    /\ wpc = "busy" /\ cur.tag = "Execute" /\ cur.query_id = "q1" /\ cur.from = 2
    /\ cancelled = {}

\* the Execute the worker holds is not cancelled and fails
FailingExecute ==
    /\ WorkerFinishes("Execute")
    /\ cur.query_id \notin cancelled
    /\ (HasNul(cur.code) \/ EvalStr(cur.code).null \/ is_error(EvalStr(cur.code)))

\* C14: an Execute that fails (NUL byte in the source, null result, error
\* value) is answered with an error, gets no handle and leaves the table and
\* next_handle as they were; with a NUL byte the engine is not called; an
\* error value is dropped once, then and never again.
C14_FailedExecute ==
    /\ [][FailingExecute
            => /\ Awaited => ~resp'[cur.from].ok
               /\ UNCHANGED <<handles, next_handle, issued>>
               /\ HasNul(cur.code) => UNCHANGED <<objs, engine_callers>>
               /\ (~HasNul(cur.code) /\ EvalStr(cur.code).null) => objs' = objs
               /\ (~HasNul(cur.code) /\ ~EvalStr(cur.code).null)
                     => objs' = Append(objs, [code |-> cur.code, drops |-> 1])]_vars
    /\ [](\A i \in 1..Len(objs) : is_error(EvalStr(objs[i].code)) => objs[i].drops = 1)

\* the error value of (raise 'ab') was reported and dropped; after it and a
\* source with a NUL byte, no handle has been issued
C14_Witness ==
    /\ pc[1] = "idle" /\ req[1].op = "execute"
    /\ resp[1] = Err("Invalid query string", 0)
    /\ \E i \in 1..Len(objs) : objs[i] = [code |-> "(raise 'ab')", drops |-> 1]
    /\ next_handle = 1 /\ handles = EmptyHandles /\ napplied = 2

\* the Execute the worker holds is not cancelled and succeeds
SucceedingExecute ==
    /\ WorkerFinishes("Execute")
    /\ cur.query_id \notin cancelled
    /\ ~HasNul(cur.code) /\ ~EvalStr(cur.code).null /\ ~is_error(EvalStr(cur.code))
    /\ Awaited

\* what C15 says of a value: result_type, row_count, and the columns where
\* it names them
MetaByTag(obj, meta) ==
    LET t == obj.type_
    IN  CASE t = 98 -> meta.result_type = "table" /\ meta.row_count = LengthOf(obj)
          [] t = 99 -> meta.result_type = "dict" /\ meta.row_count = 1
          [] t < 0 -> /\ meta.result_type = "scalar"
                      /\ meta.columns = <<"value">> /\ meta.row_count = 1
          [] t = 0 -> /\ meta.result_type = "list"
                      /\ meta.columns = <<"value">> /\ meta.row_count = Len(obj.elems)
          [] t >= 1 /\ t <= 12 -> /\ meta.result_type = "vector"
                                   /\ meta.columns = <<"value">>
                                   /\ meta.row_count = Len(obj.elems)
          [] OTHER -> /\ meta.result_type = "unknown"
                      /\ meta.columns = <<>> /\ meta.row_count = 0

\* C15: the QueryMeta of a successful Execute follows the value's tag: table,
\* dict, scalar, list, vector, and "unknown" with no columns and no rows for
\* every other tag.
C15_MetaByTag ==
    [][SucceedingExecute
         => /\ resp'[cur.from].ok
            /\ MetaByTag(EvalStr(cur.code), resp'[cur.from].meta)]_vars

\* the table of 2 columns and 3 rows was answered as such
C15_Witness ==
    /\ pc[1] = "idle" /\ req[1].op = "execute" /\ resp[1].ok
    /\ resp[1].meta.result_type = "table"
    /\ resp[1].meta.row_count = 3
    /\ Len(resp[1].meta.columns) = 2

\* the worker holds a GetRows(h, 0, n) of the caller whose last answer was
\* the QueryMeta (handle h, row_count n, a known result_type)
RoundTripGetRows ==
    /\ WorkerFinishes("GetRows")
    /\ Awaited
    /\ resp[cur.from].ok
    /\ "meta" \in DOMAIN resp[cur.from]
    /\ resp[cur.from].meta.handle = cur.handle
    /\ resp[cur.from].meta.result_type # "unknown"
    /\ cur.start = 0
    /\ cur.count = resp[cur.from].meta.row_count

\* C16: GetRows(h, 0, n) for the handle h and row_count n of a QueryMeta of
\* known result_type answers exactly n rows in element order while h is not
\* released, and Invalid handle once it is.
C16_RoundTrip ==
    [][/\ (RoundTripGetRows /\ cur.handle \notin released)
            => LET obj == HandleObj(cur.handle)
                   n == cur.count
                   r == resp'[cur.from]
               IN  /\ r.ok
                   /\ Len(r.rows) = n
                   /\ HasLength(obj) => \A i \in 1..n : r.rows[i] = RowFrom(obj, i - 1)
                   /\ obj.type_ < 0 => r.rows = <<ValueRow(obj_to_json(obj))>>
       /\ (RoundTripGetRows /\ cur.handle \in released)
            => resp'[cur.from] = Err("Invalid handle", cur.handle)]_vars

\* the 3-element vector came back as the rows 0, 1, 2 from GetRows(1, 0, 3)
C16_Witness ==
    /\ pc[1] = "idle"
    /\ req[1].op = "get_rows" /\ req[1].handle = 1 /\ req[1].start = 0 /\ req[1].count = 3
    /\ resp[1] = OkRows(<<ValueRow(JInt(0)), ValueRow(JInt(1)), ValueRow(JInt(2))>>)
    /\ issued = <<1>> /\ release_seen = {}

\* the worker is in its command loop
InLoop == wpc \in {"recv", "busy"}

\* C17: whatever an Execute, GetRows, Release or Cancel results in, the
\* worker goes back to receiving; once in its loop it leaves it only by a
\* Shutdown command.
C17_ErrorsKeepLoop ==
    [][/\ (wpc = "busy" /\ cur.tag # "Shutdown" /\ wpc' # wpc) => wpc' = "recv"
       /\ (InLoop /\ ~InLoop') => (wpc = "busy" /\ cur.tag = "Shutdown")]_vars

\* after an Execute that failed and a GetRows that failed, the worker has
\* taken the next command
C17_Witness ==
    /\ \E i \in 1..Len(objs) : objs[i].code = "(raise 'ab')"
    /\ pc[1] = "idle" /\ req[1].op = "get_rows" /\ resp[1] = Err("Invalid handle", 1)
    /\ wpc = "busy" /\ cur.seq = 3

\* the worker holds an Execute or GetRows whose caller has stopped awaiting
Undeliverable == wpc = "busy" /\ cur.tag \in {"Execute", "GetRows"} /\ ~Awaited

\* C18: a command whose caller dropped the response receiver does not block
\* the worker: its step is enabled, it is applied in its turn like any other
\* (an Execute evaluates and stores), its response reaches nobody, and the
\* worker goes back to receiving.
C18_DroppedReceiver ==
    /\ [](Undeliverable => (ENABLED WorkerStep) /\ cur.seq = napplied)
    /\ [][(Undeliverable /\ wpc' # wpc)
            => /\ wpc' = "recv"
               /\ UNCHANGED <<pc, resp, queue>>
               /\ (cur.tag = "Execute" /\ cur.query_id \notin cancelled)
                     => /\ handles' = execute_query_impl(cur.code).handles
                        /\ objs' = execute_query_impl(cur.code).objs]_vars

\* caller 1 gave up its Execute, the first command sent; the worker has
\* applied it (handle 1 is issued) and holds the command sent after it
C18_Witness ==
    /\ pc[1] = "idle" /\ req[1].op = "execute" /\ req[1].seq = 1 /\ resp[1] = NoResp
    /\ issued = <<1>>
    /\ wpc = "busy" /\ cur.seq = 2

\* execute_scalar() of caller c has returned after its Execute gave it a
\* handle, and the worker is at rest with nothing queued
ScalarReturned(c) ==
    /\ pc[c] = "idle" /\ req[c].op = "scalar_done" /\ req[c].handle > 0
    /\ queue = <<>> /\ wpc \in {"recv", "exited"}

\* C19 as stated: once execute_scalar() has returned and its commands are
\* processed, the handle it got is out of the table, a Release of it having
\* been processed.
C19_ScalarAlwaysReleased ==
    \A c \in Callers :
        ScalarReturned(c) => (req[c].handle \notin DOMAIN handles /\ req[c].handle \in released)

\* C19 as amended: once execute_scalar() has returned and its commands are
\* processed, the handle it got is out of the table and its value dropped
\* once: by a Release of the handle or, if the worker was shut down before
\* execute_scalar() got to its release, by the worker's cleanup.
C19_ScalarHandleGone ==
    \A c \in Callers :
        ScalarReturned(c)
            => /\ req[c].handle \notin DOMAIN handles
               /\ req[c].handle \in released \/ wpc = "exited"
               /\ \A i \in 1..Len(objs) : objs[i].drops = 1

\* execute_scalar() returned the first element of the 3-element vector, and
\* its Release of handle 1 has been processed
C19_Witness ==
    /\ ScalarReturned(1)
    /\ resp[1] = OkScalar(JInt(0), "vector")
    /\ wpc = "recv" /\ released = {1} /\ handles = EmptyHandles

\* tags get_rows_impl has rows for: scalars, vectors and lists, table, dict
RowTag(t) == t < 0 \/ (t >= 0 /\ t <= 12) \/ t = TYPE_TABLE \/ t = 99

\* C20: GetRows on a live handle whose value has no row form is answered
\* Unsupported type and leaves the table and the value alone; a Release of a
\* live handle then drops its value, which is never dropped twice.
C20_UnsupportedKeepsHandle ==
    /\ [][(/\ WorkerFinishes("GetRows")
            /\ cur.handle \in DOMAIN handles
            /\ ~RowTag(HandleObj(cur.handle).type_))
           => /\ Awaited => resp'[cur.from] =
                                Err("Unsupported type", HandleObj(cur.handle).type_)
              /\ UNCHANGED <<handles, objs>>]_vars
    /\ [][(WorkerFinishes("Release") /\ cur.handle \in DOMAIN handles)
           => /\ cur.handle \notin DOMAIN handles'
              /\ objs'[handles[cur.handle]].drops = 1]_vars
    /\ [](\A i \in 1..Len(objs) : objs[i].drops <= 1)

\* the lambda under handle 1 was refused by GetRows and then released
C20_Witness ==
    /\ pc[1] = "idle" /\ req[1].op = "get_rows" /\ resp[1] = Err("Unsupported type", 100)
    /\ released = {1} /\ handles = EmptyHandles
    /\ \E i \in 1..Len(objs) : objs[i] = [code |-> "(fn [x] x)", drops |-> 1]

\* the names the keys of a dict decode to
DecodedKeys(obj) ==
    {symbol_to_string(at_idx(ray_key(obj), k)) : k \in 0..(ObjLen(ray_key(obj)) - 1)}

\* C21: GetRows on a live scalar or dict is never an error; with start > 0 it
\* answers no rows, with start = 0 at most one row: for a scalar the row with
\* the one field "value" holding the converted scalar, for a dict the row
\* whose fields are the names its keys decode to.
C21_ScalarDictRows ==
    [][(/\ WorkerFinishes("GetRows")
        /\ cur.handle \in DOMAIN handles
        /\ (HandleObj(cur.handle).type_ < 0 \/ HandleObj(cur.handle).type_ = 99)
        /\ Awaited)
       => LET obj == HandleObj(cur.handle)
              r == resp'[cur.from]
          IN  /\ r.ok
              /\ cur.start > 0 => r.rows = <<>>
              /\ cur.start = 0 =>
                    /\ Len(r.rows) <= 1
                    /\ \A i \in 1..Len(r.rows) :
                          IF obj.type_ < 0
                          THEN /\ DOMAIN r.rows[i] = {"value"}
                               /\ r.rows[i]["value"] = obj_to_json(obj)
                          ELSE DOMAIN r.rows[i] = DecodedKeys(obj)]_vars

\* GetRows(1, 0, 0) on the dict of keys a and b gave its one row of two fields
C21_Witness ==
    /\ pc[1] = "idle"
    /\ req[1].op = "get_rows" /\ req[1].start = 0 /\ req[1].count = 0
    /\ resp[1].ok /\ "rows" \in DOMAIN resp[1] /\ Len(resp[1].rows) = 1
    /\ DOMAIN resp[1].rows[1] = {"col_1", "col_2"}

\* the elements of a sequence
Range(s) == {s[k] : k \in 1..Len(s)}

\* C22: the QueryMeta an Execute answers for a table lists the columns
\* extract_table_meta reads from it, and every row GetRows answers for that
\* handle has exactly those columns as its fields, one field per column.
C22_RowsHaveDeclaredColumns ==
    [][/\ (SucceedingExecute /\ EvalStr(cur.code).type_ = TYPE_TABLE)
            => resp'[cur.from].meta.columns = extract_table_meta(EvalStr(cur.code)).columns
       /\ (/\ WorkerFinishes("GetRows")
           /\ cur.handle \in DOMAIN handles
           /\ HandleObj(cur.handle).type_ = TYPE_TABLE
           /\ Awaited)
            => LET columns == extract_table_meta(HandleObj(cur.handle)).columns
                   r == resp'[cur.from]
               IN  /\ r.ok
                   /\ \A i \in 1..Len(r.rows) :
                         /\ DOMAIN r.rows[i] = Range(columns)
                         /\ Cardinality(DOMAIN r.rows[i]) = Len(columns)]_vars

\* GetRows(1, 1, 2) on the table of columns a and b gave rows 1 and 2, each
\* with the two columns
C22_Witness ==
    /\ pc[1] = "idle"
    /\ req[1].op = "get_rows" /\ req[1].start = 1 /\ req[1].count = 2
    /\ resp[1] = OkRows(<<[col_1 |-> JInt(1), col_2 |-> JStr("col_2")],
                          [col_1 |-> JInt(2), col_2 |-> JStr("col_1")]>>)

\* the rows of a vector by the generic path alone: at_idx, then obj_to_json
GenericRows(obj, start, count) ==
    LET L == Len(obj.elems)
        n == IF start < L THEN Min(count, L - start) ELSE 0
    IN  [i \in 1..n |-> [value |-> obj_to_json(at_idx(obj, start + (i - 1)))]]

NumericAtomTags(with_boolean) == (IF with_boolean THEN {-1} ELSE {}) \cup {-2, -3, -4, -5, -7, -8, -9}

RECURSIVE LeafFollowsTag(_, _, _)
\* the JSON value j is what C24 says of the value obj; with_boolean tells
\* whether a boolean atom is to be a number too
LeafFollowsTag(obj, j, with_boolean) ==
    IF obj.null \/ obj.type_ = TYPE_NULL THEN j = JNull
    ELSE IF obj.type_ \in NumericAtomTags(with_boolean) THEN j = JInt(as_i64(obj))
    ELSE IF obj.type_ = -6 THEN j.k = "str"
    ELSE IF obj.type_ = -12 THEN j.k = "str" /\ Len(j.s) = 1
    ELSE IF obj.type_ >= 0 /\ obj.type_ <= 12
    THEN /\ j.k = "arr"
         /\ Len(j.a) = Len(obj.elems)
         /\ \A i \in 1..Len(obj.elems) : LeafFollowsTag(at_idx(obj, i - 1), j.a[i], with_boolean)
    ELSE TRUE

\* every "value" field GetRows answers for a live scalar, vector or list
\* follows the tag of the value it was converted from
ValuesFollowTags(with_boolean) ==
    (/\ WorkerFinishes("GetRows")
     /\ cur.handle \in DOMAIN handles
     /\ HandleObj(cur.handle).type_ <= 12
     /\ Awaited)
    => LET obj == HandleObj(cur.handle)
           r == resp'[cur.from]
       IN  /\ r.ok
           /\ \A i \in 1..Len(r.rows) :
                 LeafFollowsTag(IF obj.type_ < 0 THEN obj ELSE at_idx(obj, cur.start + (i - 1)),
                                r.rows[i]["value"], with_boolean)

\* C24: the materializer turns a boolean, integer, date, time or timestamp
\* atom into a number, a symbol atom into a string, a char atom into a string
\* of one character, a null tag or null pointer into null, and a vector or
\* list into the array of its converted elements in order.
C24_LeavesByTag == [][ValuesFollowTags(TRUE)]_vars

\* the same without the boolean atom, which becomes a JSON boolean
C24_LeavesButBoolean ==
    [][/\ ValuesFollowTags(FALSE)
       /\ (/\ WorkerFinishes("GetRows")
           /\ cur.handle \in DOMAIN handles
           /\ HandleObj(cur.handle).type_ = -1
           /\ Awaited /\ cur.start = 0)
            => resp'[cur.from] = OkRows(<<ValueRow(JBool(as_i64(HandleObj(cur.handle)) # 0))>>)]_vars

\* tags obj_to_json has an arm for
Recognized(t) ==
    t \in (-10..-1) \cup {-12} \cup (0..12) \cup {TYPE_TABLE, TYPE_DICT, TYPE_NULL, TYPE_ERR}

\* the diagnostic object of an unrecognized tag
Diagnostic(t) == JObj([type |-> JInt(t)])

\* C25: GetRows on a live scalar, vector, list, table or dict is answered
\* with rows, never an error, whatever the tags of the elements inside; an
\* element of a list whose tag the materializer does not recognize becomes
\* the diagnostic object holding that tag.
C25_MaterializerTotal ==
    [][(/\ WorkerFinishes("GetRows")
        /\ cur.handle \in DOMAIN handles
        /\ RowTag(HandleObj(cur.handle).type_)
        /\ Awaited)
       => LET obj == HandleObj(cur.handle)
              r == resp'[cur.from]
          IN  /\ r.ok
              /\ obj.type_ = TYPE_LIST =>
                    \A i \in 1..Len(r.rows) :
                        LET elem == at_idx(obj, cur.start + (i - 1))
                        IN  (~elem.null /\ ~Recognized(elem.type_))
                                => r.rows[i]["value"] = Diagnostic(elem.type_)]_vars

\* GetRows(1, 0, 3) on the list of a lambda, a null and 7 gave three rows,
\* the first holding the diagnostic object of tag 100
C25_Witness ==
    /\ pc[1] = "idle"
    /\ req[1].op = "get_rows" /\ req[1].start = 0 /\ req[1].count = 3
    /\ resp[1] = OkRows(<<ValueRow(Diagnostic(TYPE_LAMBDA)), ValueRow(JNull), ValueRow(JInt(7))>>)

\* the command caller c awaits the answer of is in the channel or in the
\* worker's hands
InChannel(c) ==
    \/ \E i \in 1..Len(queue) : queue[i].seq = req[c].seq /\ queue[i].from = c
    \/ wpc = "busy" /\ cur.seq = req[c].seq /\ cur.from = c

\* C26: until the worker has received its first command its table and its
\* cancelled set are empty and the next handle is 1; a command sent before
\* start() stays in the channel, and the worker receives the commands in the
\* order they were sent, those sent before start() first.
C26_FreshWorkerState ==
    /\ napplied = 0 => (handles = EmptyHandles /\ cancelled = {} /\ next_handle = 1)
    /\ command_rx = "stored" => (Len(queue) = nsent /\ napplied = 0)
    /\ \A c \in Callers : pc[c] = "await" => InChannel(c)
    /\ \A i \in 1..Len(queue) : queue[i].seq = napplied + i
    /\ wpc = "busy" => cur.seq = napplied

\* a Cancel of q1 and then caller 1's Execute of q1 were sent before any
\* start() took the receiver; the worker, once started, applied both in that
\* order: the Execute was answered "Query cancelled"
C26_Witness ==
    /\ pc[1] = "idle" /\ req[1].op = "execute" /\ req[1].before_start /\ req[1].seq = 2
    /\ resp[1] = Err("Query cancelled", 0)
    /\ napplied = 2 /\ cancelled = {}

\* positions of an init_bridge() whose set() was refused
Refused == {"ib_drop_send", "ib_drop_store", "ib_drop_take"}

\* caller c's init_bridge() installed its bridge
Installer(c) ==
    /\ req[c].op = "init_bridge"
    /\ pc[c] \in {"ib_start", "start_take", "start_store", "idle", "panicked"}
    /\ resp[c] # AlreadyInitialized

\* the installed bridge, its channel, its worker and the engine
installedVars == <<bridgeVars, queue, workerVars, engineVars, spawned, nsent>>

\* a set() on the set cell is refused with the error, and neither it nor the
\* drop that follows changes the cell or anything of the installed bridge
RefusedLeavesInstalled ==
    /\ cell = "set" => cell' = "set"
    /\ \A c \in Callers :
          (pc[c] = "ib_set" /\ cell = "set" /\ pc'[c] # pc[c])
              => /\ pc'[c] \in Refused
                 /\ resp'[c] = AlreadyInitialized
                 /\ UNCHANGED installedVars
    /\ \A c \in Callers :
          (pc[c] \in Refused /\ pc'[c] # pc[c]) => UNCHANGED <<cell, installedVars>>

\* C27: the first init_bridge() installs its bridge and starts it; an
\* init_bridge() that finds BRIDGE set, also one racing with the first,
\* returns "Bridge already initialized"; neither its set() nor the drop of
\* the bridge it built touches the installed bridge, its channel or its
\* worker; BRIDGE once set stays set, and no second thread is spawned.
C27_InitBridgeOnce ==
    /\ [](spawned <= 1 /\ Cardinality({c \in Callers : Installer(c)}) <= 1)
    /\ [](\A c \in Callers :
            (pc[c] = "idle" /\ req[c].op = "init_bridge" /\ ~Installer(c))
                => (resp[c] = AlreadyInitialized /\ temp[c] = NoBridge))
    /\ [][RefusedLeavesInstalled]_vars

\* caller 2's init_bridge() has returned the error while caller 1, whose
\* bridge is installed, is still inside its start(); the one worker runs
C27_Witness ==
    /\ pc[2] = "idle" /\ req[2].op = "init_bridge" /\ resp[2] = AlreadyInitialized
    /\ pc[1] = "start_store" /\ req[1].op = "init_bridge"
    /\ cell = "set" /\ spawned = 1 /\ wpc = "recv"

\* the worker's own state: the handle table, the counter, the cancelled set
workerState == <<handles, next_handle, cancelled>>

\* what each of the three commands may change of the worker's state
CommandFrame ==
    /\ WorkerFinishes("GetRows") => UNCHANGED <<workerState, objs>>
    /\ WorkerFinishes("Cancel")
          => /\ UNCHANGED <<handles, next_handle, objs>>
             /\ cancelled' = cancelled \cup {cur.query_id}
    /\ WorkerFinishes("Release")
          => /\ UNCHANGED <<next_handle, cancelled>>
             /\ DOMAIN handles' = DOMAIN handles \ {cur.handle}
             /\ \A h \in DOMAIN handles' : handles'[h] = handles[h]

\* C28: GetRows, whatever it answers (rows, Invalid handle, Unsupported
\* type), leaves the handle table, the next-handle counter and the cancelled
\* set as they were; Cancel changes only the cancelled set; Release changes
\* only the handle table, and there only the entry of its handle.
C28_CommandFrame == [][CommandFrame]_vars

\* a GetRows answered with rows while a Cancel is on record: the handle is
\* still live afterwards and the counter and the cancelled set are as before
C28_Witness ==
    /\ pc[1] = "idle" /\ req[1].op = "get_rows" /\ resp[1].ok
    /\ DOMAIN handles = {1} /\ next_handle = 2 /\ cancelled = {"q1"}

\* caller c's shutdown() returns: from the take that found no join handle, or
\* from the join
ShutdownReturns(c) == pc[c] \in {"sd_take", "sd_join"} /\ pc'[c] \notin {"sd_take", "sd_join"}

\* start() has been invoked on the bridge: a worker was spawned, or a start()
\* is past its swap of the flag
StartInvoked == spawned >= 1 \/ \E c \in Callers : pc[c] = "start_take"

\* a start() is between its swap of the flag and the store of the join handle
StartUnderWay == \E c \in Callers : pc[c] \in {"start_take", "start_store"}

\* the worker thread is over, no handle is left and the runtime is not up
WorkerTornDown == wpc = "exited" /\ handles = EmptyHandles /\ runtime # "up"

\* C29: when a shutdown() returns on a bridge on which start() has been
\* invoked, the worker thread has terminated, every handle is released and
\* the runtime is torn down, in every interleaving of start() and shutdown().
C29_ShutdownJoinsWorker ==
    [][\A c \in Callers : (ShutdownReturns(c) /\ StartInvoked) => WorkerTornDown']_vars

\* the part that holds: a shutdown() that returns while no start() is under
\* way (two shutdown() calls racing included) leaves the worker torn down
ShutdownAfterStartJoins ==
    [][\A c \in Callers :
          (ShutdownReturns(c) /\ StartInvoked /\ ~StartUnderWay) => WorkerTornDown']_vars

\* two shutdown() calls race on a started bridge: one is in its join and
\* holds the lock of thread_handle, the other waits for the lock
TwoShutdownsRacing ==
    /\ pc[1] = "sd_join" /\ pc[2] = "sd_take"
    /\ spawned = 1 /\ wpc # "exited"

\* the bridge was started or shut down at some time
StartedOrShutDown == spawned >= 1 \/ shutdown_sent

\* C30: every execute_query and get_rows call resolves, to a result or an
\* error, whether its command was sent before start(), while the worker
\* runs, after shutdown(), or on a bridge that was shut down and never
\* started: no call stays at its await forever.
C30_EveryCallResolves ==
    \A c \in Callers : (pc[c] = "await" /\ StartedOrShutDown) ~> (pc[c] # "await")

\* the part that holds: once a worker thread was spawned, every awaited call
\* resolves, those sent before start() and those sent after shutdown() too
StartedCallsResolve ==
    \A c \in Callers : (pc[c] = "await" /\ spawned >= 1) ~> (pc[c] # "await")

\* a call sent before start() was answered by the worker with a result
SentBeforeStartResolved ==
    \E c \in Callers : pc[c] = "idle" /\ req[c].op = "execute" /\ req[c].before_start /\ resp[c].ok

\* the two errors of the channel: the send failed, or the response sender
\* was dropped unanswered
ChannelErrors == {SendFailed, DroppedResponse}

\* C31: if ray_init fails when the worker starts, the worker takes no
\* command, evaluates nothing, releases nothing and does not call ray_clean;
\* no execute_query or get_rows is left waiting, and each of them, sent
\* before or after the failure, has resolved to a channel error.
C31_InitFailure ==
    runtime = "failed"
        => /\ wpc = "exited" /\ napplied = 0 /\ cur = NoCmd /\ queue = <<>>
           /\ objs = <<>> /\ handles = EmptyHandles /\ next_handle = 1 /\ ~late_call
           /\ \A c \in Callers :
                 /\ pc[c] # "await"
                 /\ (pc[c] = "idle" /\ req[c].op \in {"execute", "get_rows"})
                       => resp[c] \in ChannelErrors

\* initialization failed; caller 1's Execute, queued before start(), lost its
\* response sender, and caller 2's GetRows, made after the failure, could
\* not be sent
C31_Witness ==
    /\ runtime = "failed"
    /\ pc[1] = "idle" /\ req[1].op = "execute" /\ req[1].before_start /\ resp[1] = DroppedResponse
    /\ pc[2] = "idle" /\ req[2].op = "get_rows" /\ resp[2] = SendFailed

\* the number of entries of a record that are tag
CountOf(hist, tag) == Cardinality({i \in 1..Len(hist) : hist[i] = tag})

\* a record is open while its id is in the cancelled set: it starts with the
\* Cancel and holds no Execute of the id; a closed record ends with the one
\* Execute that used the cancellation up, however many Cancels it holds
RecordsWellFormed ==
    \A q \in QueryIds :
        /\ q \in cancelled
              => /\ cancel_hist[q] # <<>>
                 /\ cancel_hist[q][1] = "Cancel"
                 /\ CountOf(cancel_hist[q], "Execute") = 0
        /\ (q \notin cancelled /\ cancel_hist[q] # <<>>)
              => /\ cancel_hist[q][Len(cancel_hist[q])] = "Execute"
                 /\ CountOf(cancel_hist[q], "Execute") = 1

\* a processed Cancel puts its id on record; the id leaves the set only by
\* an Execute of it, which is then answered "Query cancelled"; an Execute
\* of an id not on record is evaluated
StaleCancelStep ==
    /\ WorkerFinishes("Cancel") => cancelled' = cancelled \cup {cur.query_id}
    /\ \A q \in QueryIds :
          (q \in cancelled /\ q \notin cancelled')
              => (WorkerFinishes("Execute") /\ cur.query_id = q)
    /\ (WorkerFinishes("Execute") /\ cur.query_id \in cancelled)
          => /\ cur.query_id \notin cancelled'
             /\ Awaited => resp'[cur.from] = Err("Query cancelled", 0)
    /\ (WorkerFinishes("Execute") /\ cur.query_id \notin cancelled)
          => (Awaited => resp'[cur.from] = execute_query_impl(cur.code).res)

\* C32: a Cancel(id) processed with no Execute(id) behind it keeps the id in
\* the cancelled set through every other command, until the next Execute of
\* that id, which it cancels; several Cancel(id) processed before that
\* Execute cancel that one Execute only, the one after it is evaluated.
C32_StaleCancel == []RecordsWellFormed /\ [][StaleCancelStep]_vars

\* two Cancels of q1 were processed, then caller 1's Execute of q1: it was
\* cancelled, and nothing is left on record for the next one
C32_Witness ==
    /\ cancel_hist["q1"] = <<"Cancel", "Cancel", "Execute">>
    /\ pc[1] = "idle" /\ req[1].op = "execute" /\ resp[1] = Err("Query cancelled", 0)
    /\ cancelled = {}

\* one Cancel of q1, then a GetRows, then the Execute of q1 it cancelled
StaleCancelOutlivesOthers ==
    /\ cancel_hist["q1"] = <<"Cancel", "GetRows", "Execute">>
    /\ \E c \in Callers : pc[c] = "idle" /\ req[c].op = "execute" /\ resp[c] = Err("Query cancelled", 0)

\* C33: the live handles lie in 1..next_handle - 1; every live handle holds
\* one value, which has not been dropped, and no value is held under two
\* handles; next_handle - 1 is the number of Executes that succeeded, the
\* handles issued being 1, 2, ... without a gap.
C33_HandleTable ==
    /\ DOMAIN handles \subseteq 1..(next_handle - 1)
    /\ \A h \in DOMAIN handles : handles[h] \in 1..Len(objs) /\ objs[handles[h]].drops = 0
    /\ \A h, g \in DOMAIN handles : handles[h] = handles[g] => h = g
    /\ next_handle - 1 = Len(issued)
    /\ \A i \in 1..Len(issued) : issued[i] = i

\* three Executes were processed, the second of them failed or was
\* cancelled: the two that succeeded hold handles 1 and 2
C33_Witness ==
    /\ napplied = 3 /\ nsent = 3 /\ wpc = "recv"
    /\ pc[2] = "idle" /\ req[2].op = "execute" /\ req[2].seq = 2 /\ ~resp[2].ok
    /\ pc[1] = "idle" /\ req[1].op = "execute" /\ req[1].seq = 3 /\ resp[1].ok
    /\ DOMAIN handles = {1, 2} /\ next_handle = 3

\* no connect_server or disconnect_server is under way
ConnQuiescent ==
    \A c \in Callers : pc[c] \notin {"conn_send", "disc_send", "await"} /\ req[c].op \notin ConnPending

\* the alias is tracked exactly when the last call that returned for it was
\* a connect_server that succeeded
TrackedIffConnected ==
    \A a \in Aliases : a \in DOMAIN connections <=> last_done[a] = "connect_ok"

\* caller c's connect_server returns its error, having taken the alias out
FailingConnectReturns(c) ==
    pc[c] = "idle" /\ req[c].op = "connect" /\ ~resp[c].ok /\ req'[c].op = "connect_done"

\* a failing connect_server leaves the entry of another caller's successful
\* connect_server in the map
FailureKeepsOthersEntry ==
    \A c \in Callers, a \in Aliases :
        (/\ FailingConnectReturns(c)
         /\ a \in DOMAIN connections
         /\ connections[a].by # c
         /\ connections[a].ok)
            => a \in DOMAIN connections'

\* C34: once the concurrent connect_server and disconnect_server calls have
\* returned, an alias is in the map exactly when the last connect_server
\* for it succeeded and no disconnect_server followed; a failing
\* connect_server never removes the entry made by another, successful one.
C34_ConnectionTracking ==
    /\ [](ConnQuiescent => TrackedIffConnected)
    /\ [][FailureKeepsOthersEntry]_vars

\* the part that holds, under ConnSeqSpec: with the calls made one after the
\* other the alias is tracked exactly when the last of them was a
\* connect_server that succeeded
SequentialTracking == ConnQuiescent => TrackedIffConnected

====
